---- MODULE Spec2Model ----
(***************************************************************************)
(* Model of the encrypted vault engine of Claudia (src-tauri/src):         *)
(* crypto.rs, encrypted_storage.rs, commands/vault.rs and the vault-gated  *)
(* note / folder / trash commands, with the tool adapter (mcp/api.rs).     *)
(*                                                                         *)
(* One workspace is open throughout.  A file is a sequence of lines; a     *)
(* line is a record.  Password strings are TLA+ strings.                   *)
(***************************************************************************)
EXTENDS Integers, Sequences, FiniteSets, TLC

---------------------------------------------------------------------------
(* Bounds of the model *)

\* the configured idle timeout, in ticks of the clock
IdleTimeout == 2

\* passwords a user types
Passwords == {"a", "b"}

\* record ids (UUIDs); a note's file name is its id plus ".md"
NoteIds == {"n1", "n2"}

\* bodies a user writes
Bodies == {"x", "y"}

\* ids of password records
PasswordIds == {"p1", "p2"}

\* the random generator gives the values 0 .. MaxRandom
MaxRandom == 3

\* texts handed to encrypt, as sequences of code points: "", "x", "xy"
Plaintexts == {<<>>, <<120>>, <<120, 121>>}

\* the YAML of a record handed to createEncryptedFile: "id"
Yamls == {<<105, 100>>}

\* the longest text handed to the format functions, in lines
MaxLines == 5

---------------------------------------------------------------------------
(* Results: Rust's Result<T, String> and Option<T> *)

Idle == [cmd |-> "idle"]

Ok(v) == [ok |-> TRUE, val |-> v]

Err(e) == [ok |-> FALSE, err |-> e]

Unit == "()"

VaultLocked == "Vault is locked"

---------------------------------------------------------------------------
(* crypto.rs *)

\* base64(salt || nonce || ciphertext+tag): the blob opens under the
\* password it was sealed with and under no other.  The random salt and
\* nonce are left out of the blob's value.
encrypt(plaintext, masterPassword) ==
    [t |-> "blob", pw |-> masterPassword, pt |-> plaintext]

decrypt(encrypted, masterPassword) ==
    IF encrypted.t # "blob"
    THEN Err("Invalid encrypted data")
    ELSE IF encrypted.pw # masterPassword
         THEN Err("Decryption failed - wrong password?")
         ELSE Ok(encrypted.pt)

\* The same two functions byte by byte, for the properties of the cipher
\* itself.  A text is the sequence of its code points (ASCII), a byte
\* string a sequence of bytes.

NONCE_SIZE == 12

SALT_SIZE == 16

\* the length of the tag AES-GCM appends to the ciphertext
TAG_SIZE == 16

Byte(n) == [byte |-> n]

\* str::as_bytes
as_bytes(text) == [i \in 1..Len(text) |-> Byte(text[i])]

\* String::from_utf8, for bytes that are ASCII or no text at all
from_utf8(bytes) ==
    IF \A i \in 1..Len(bytes) : "byte" \in DOMAIN bytes[i] /\ bytes[i].byte < 128
    THEN Ok([i \in 1..Len(bytes) |-> bytes[i].byte])
    ELSE Err("invalid utf-8 sequence")

\* base64 STANDARD: decode gives back the bytes encode was given and
\* fails on a text that is no base64
Base64_encode(bytes) == [t |-> "base64", of |-> bytes]

Base64_decode(text) ==
    IF text.t = "base64" THEN Ok(text.of) ELSE Err("Invalid symbol")

\* rng.fill(buffer): the bytes the generator writes when it gives value v;
\* two values give two different fillings
fill(v, size) == [i \in 1..size |-> Byte(IF i = 1 THEN v ELSE 0)]

\* Argon2 that takes no account of the password
deriveKey_anyPassword(password, salt) == [argon2 |-> "", salt |-> salt]

\* Argon2: one key for each password and salt
deriveKey(password, salt) == [argon2 |-> password, salt |-> salt]

\* the tag of AES-GCM over the ciphertext under the key and nonce
Aes256Gcm_tag(key, nonce, body) ==
    [j \in 1..TAG_SIZE |-> [tag |-> j, key |-> key, nonce |-> nonce, over |-> body]]

\* cipher.encrypt(nonce, plaintext): a ciphertext byte for each plaintext
\* byte, then the tag
Aes256Gcm_encrypt(key, nonce, plaintext) ==
    LET body == [i \in 1..Len(plaintext) |->
                    [key |-> key, nonce |-> nonce, at |-> i, of |-> plaintext[i]]]
    IN  body \o Aes256Gcm_tag(key, nonce, body)

\* cipher.decrypt(nonce, ciphertext): fails unless the tag is the tag of the
\* ciphertext under the key and nonce
Aes256Gcm_decrypt(key, nonce, ciphertext) ==
    IF Len(ciphertext) < TAG_SIZE THEN Err("aead::Error")
    ELSE LET body == SubSeq(ciphertext, 1, Len(ciphertext) - TAG_SIZE)
             tag == SubSeq(ciphertext, Len(ciphertext) - TAG_SIZE + 1, Len(ciphertext))
         IN  IF tag = Aes256Gcm_tag(key, nonce, body)
             THEN Ok([i \in 1..Len(body) |-> body[i].of])
             ELSE Err("aead::Error")

\* encrypt that writes zeros for the salt and the nonce
crypto_encrypt_zeroFill(plaintext, masterPassword, salt, nonce_bytes) ==
    LET key == deriveKey(masterPassword, fill(0, SALT_SIZE))
        ciphertext == Aes256Gcm_encrypt(key, fill(0, NONCE_SIZE), as_bytes(plaintext))
        combined == fill(0, SALT_SIZE) \o fill(0, NONCE_SIZE) \o ciphertext
    IN  Base64_encode(combined)

\* encrypt, from the salt and nonce the generator has filled
crypto_encrypt(plaintext, masterPassword, salt, nonce_bytes) ==
    LET key == deriveKey(masterPassword, salt)
        ciphertext == Aes256Gcm_encrypt(key, nonce_bytes, as_bytes(plaintext))
        combined == salt \o nonce_bytes \o ciphertext
    IN  Base64_encode(combined)

\* decrypt that takes the nonce one byte too far
crypto_decrypt_nonceShifted(encrypted, masterPassword) ==
    LET decoded == Base64_decode(encrypted) IN
    IF ~decoded.ok THEN decoded
    ELSE LET combined == decoded.val IN
         IF Len(combined) < SALT_SIZE + NONCE_SIZE + 1
         THEN Err("Invalid encrypted data")
         ELSE LET salt == SubSeq(combined, 1, SALT_SIZE)
                  nonce_bytes == SubSeq(combined, SALT_SIZE, SALT_SIZE + NONCE_SIZE - 1)
                  ciphertext == SubSeq(combined, SALT_SIZE + NONCE_SIZE + 1, Len(combined))
                  key == deriveKey(masterPassword, salt)
                  plaintext == Aes256Gcm_decrypt(key, nonce_bytes, ciphertext)
              IN  IF ~plaintext.ok
                  THEN Err("Decryption failed - wrong password?")
                  ELSE from_utf8(plaintext.val)

crypto_decrypt(encrypted, masterPassword) ==
    LET decoded == Base64_decode(encrypted) IN
    IF ~decoded.ok THEN decoded
    ELSE LET combined == decoded.val IN
         IF Len(combined) < SALT_SIZE + NONCE_SIZE + 1
         THEN Err("Invalid encrypted data")
         ELSE LET salt == SubSeq(combined, 1, SALT_SIZE)
                  nonce_bytes == SubSeq(combined, SALT_SIZE + 1, SALT_SIZE + NONCE_SIZE)
                  ciphertext == SubSeq(combined, SALT_SIZE + NONCE_SIZE + 1, Len(combined))
                  key == deriveKey(masterPassword, salt)
                  plaintext == Aes256Gcm_decrypt(key, nonce_bytes, ciphertext)
              IN  IF ~plaintext.ok
                  THEN Err("Decryption failed - wrong password?")
                  ELSE from_utf8(plaintext.val)

NoHash == [alg |-> "none"]

\* the PHC string of Argon2: verifies exactly the password it was made of
hashMasterPassword(password) == [alg |-> "argon2id", of |-> password]

verifyMasterPassword(password, hash) ==
    /\ hash.alg = "argon2id"
    /\ hash.of = password

---------------------------------------------------------------------------
(* encrypted_storage.rs *)

FORMAT_HEADER == [t |-> "text", s |-> "CLAUDIA-ENCRYPTED-v1"]

METADATA_MARKER == [t |-> "text", s |-> "[METADATA]"]

CONTENT_MARKER == [t |-> "text", s |-> "[CONTENT]"]

BlankLine == [t |-> "text", s |-> ""]

\* a line with only whitespace is empty after trim()
IsBlank(line) == line = BlankLine

RECURSIVE NonBlank(_)
NonBlank(lines) ==
    IF lines = <<>> THEN <<>>
    ELSE IF IsBlank(Head(lines)) THEN NonBlank(Tail(lines))
         ELSE <<Head(lines)>> \o NonBlank(Tail(lines))

\* raw.trim().starts_with(FORMAT_HEADER): the first non-blank line begins
\* with the header text
isEncryptedFormat(raw) ==
    LET nb == NonBlank(raw) IN
    /\ nb # <<>>
    /\ Head(nb).t = "text"
    /\ Head(nb).s \in {"CLAUDIA-ENCRYPTED-v1", "CLAUDIA-ENCRYPTED-v1+"}

\* index after the last line equal to the marker, 0 when there is none
RECURSIVE LastMarker(_, _, _)
LastMarker(lines, marker, i) ==
    IF i = 0 THEN 0
    ELSE IF lines[i] = marker THEN i + 1
         ELSE LastMarker(lines, marker, i - 1)

\* join("") of the non-empty lines: one blob line stays that blob, no line
\* gives the empty string, several lines give their concatenation
Join(lines) ==
    LET nb == NonBlank(lines) IN
    IF nb = <<>> THEN [t |-> "text", s |-> ""]
    ELSE IF Len(nb) = 1 THEN nb[1]
         ELSE [t |-> "joined", parts |-> nb]

parseEncryptedFile(raw) ==
    IF raw = <<>> \/ raw[1] # FORMAT_HEADER
    THEN Err("Invalid file format: missing header")
    ELSE LET metadataIdx == LastMarker(raw, METADATA_MARKER, Len(raw))
             contentIdx == LastMarker(raw, CONTENT_MARKER, Len(raw))
         IN  IF metadataIdx = 0 THEN Err("Missing [METADATA] section")
             ELSE IF contentIdx = 0 THEN Err("Missing [CONTENT] section")
             ELSE IF metadataIdx >= contentIdx
                  THEN Err("Invalid format: [METADATA] must come before [CONTENT]")
                  ELSE Ok([metadata |-> Join(SubSeq(raw, metadataIdx, contentIdx - 2)),
                           content |-> Join(SubSeq(raw, contentIdx, Len(raw)))])

\* toEncryptedFile that writes the content section first
toEncryptedFile_contentFirst(encryptedMetadata, encryptedContent) ==
    <<FORMAT_HEADER, CONTENT_MARKER, encryptedContent,
      METADATA_MARKER, encryptedMetadata>>

toEncryptedFile(encryptedMetadata, encryptedContent) ==
    <<FORMAT_HEADER, METADATA_MARKER, encryptedMetadata,
      CONTENT_MARKER, encryptedContent>>

encryptMetadata(yamlContent, masterPassword) == encrypt(yamlContent, masterPassword)

decryptMetadata(encryptedMetadata, masterPassword) == decrypt(encryptedMetadata, masterPassword)

encryptContent(bodyContent, masterPassword) == encrypt(bodyContent, masterPassword)

decryptContent(encryptedContent, masterPassword) == decrypt(encryptedContent, masterPassword)

createEncryptedFile(yamlMetadata, bodyContent, masterPassword) ==
    toEncryptedFile(encryptMetadata(yamlMetadata, masterPassword),
                    encryptContent(bodyContent, masterPassword))

---------------------------------------------------------------------------
(* The workspace on disk *)

\* foldersDir(ws).join("notes"): the root notes directory
RootNotes == "folders/notes"

\* a folder of the tree: a UUID-named directory under folders/
FolderDir == "folders/F"

\* the notes subdirectory of that folder
FolderNotes == "folders/F/notes"

\* trashNotesDir(ws): the trash lies beside folders/, not under it
TrashNotes == "trash/notes"

FolderMd == ".folder.md"

\* a file of the folder directory whose extension is not md
Attachment == "n1.md.bak"

NoteDirs == {RootNotes, FolderNotes, TrashNotes}

Paths == (NoteDirs \X NoteIds) \cup {<<FolderDir, FolderMd>>, <<FolderDir, Attachment>>}

\* path.extension() is "md"
IsMd(path) == path[2] # Attachment

\* the paths below foldersDir(ws)
UnderFolders == {p \in Paths : p[1] \in {RootNotes, FolderDir, FolderNotes}}

\* the paths below the folder directory
UnderFolderDir == {p \in Paths : p[1] \in {FolderDir, FolderNotes}}

NoFile == [exists |-> FALSE]

File(raw) == [exists |-> TRUE, raw |-> raw]

\* serde_yaml::to_string of a NoteFrontmatter / FolderFrontmatter
NoteYaml(id) == [kind |-> "note", id |-> id]

FolderYaml == [kind |-> "folder", id |-> "F"]

\* the plain text of a body
Text(b) == [text |-> b]

\* the line that opens and closes plain frontmatter
Dashes == [t |-> "text", s |-> "---"]

\* the text without its leading and trailing blank lines
RECURSIVE TrimLines(_)
TrimLines(lines) ==
    IF lines = <<>> THEN <<>>
    ELSE IF IsBlank(Head(lines)) THEN TrimLines(Tail(lines))
    ELSE IF IsBlank(lines[Len(lines)]) THEN TrimLines(SubSeq(lines, 1, Len(lines) - 1))
    ELSE lines

\* storage::toMarkdown: the legacy format of a record, frontmatter between
\* two --- lines, a blank line, the body
toMarkdown(frontmatter, body) ==
    <<Dashes, [t |-> "yaml", of |-> frontmatter], Dashes, BlankLine, body>>

\* storage::parseFrontmatter: the frontmatter lies between the first line,
\* which is ---, and the next --- line; the body is the rest, trimmed
parseFrontmatter(raw) ==
    LET content == TrimLines(raw) IN
    IF content = <<>> \/ content[1] # Dashes THEN Err("no frontmatter")
    ELSE LET ends == {j \in 2..Len(content) : content[j] = Dashes} IN
         IF ends = {} THEN Err("no frontmatter")
         ELSE LET end == CHOOSE j \in ends : \A k \in ends : j <= k
                  yaml == SubSeq(content, 2, end - 1)
                  rest == TrimLines(SubSeq(content, end + 1, Len(content)))
              IN  IF Len(yaml) = 1 /\ "of" \in DOMAIN yaml[1]
                  THEN Ok([frontmatter |-> yaml[1].of,
                           body |-> IF rest = <<>> THEN Text("")
                                    ELSE IF Len(rest) = 1 THEN rest[1]
                                    ELSE [lines |-> rest]])
                  ELSE Err("yaml")

---------------------------------------------------------------------------
(* State *)

VARIABLES
    storedHash,     \* the master password hash file (NoHash: no file)
    derivedKey,     \* Storage: the key held in memory (NoKey: none)
    idleTime,       \* Storage: the time elapsed since lastActivity
    files,          \* Paths -> NoFile or File(raw)
    last,           \* the command that ran last, its arguments and what it
                    \* returned, until the caller has taken the answer
    rot,            \* the rotation in progress on the main thread
    mcp,            \* the tool call in progress on the server's thread
    passwordsAccess,    \* Storage: the access granted to the password records
    passwordFiles,      \* the files of folders/passwords: id -> NoFile or File(raw)
    drawn,          \* the values the random generator has given
    sealed,         \* the blobs encrypt has returned, with what was sealed
    sealedFiles     \* the files createEncryptedFile has returned

vars == <<storedHash, derivedKey, idleTime, files, last, rot, mcp,
          passwordsAccess, passwordFiles, drawn, sealed, sealedFiles>>

---------------------------------------------------------------------------
(* The session kept by Storage.  The methods of Storage that keep it are   *)
(* not in storage.rs; they are modelled from the VaultSession of the       *)
(* specification and from their callers.                                   *)

NoKey == [none |-> TRUE]

NoPassword == "<none>"

\* the text of a key: the string that getMasterPassword returns
KeyText == ("a" :> "key(a)") @@ ("b" :> "key(b)")

isVaultSetup == storedHash # NoHash

isUnlocked ==
    /\ derivedKey # NoKey
    /\ idleTime < IdleTimeout

\* the session is given the derived key only (vault.rs:50-51, 80-81,
\* 132-133), so the string it hands out is a function of that key
getMasterPassword ==
    IF derivedKey = NoKey THEN NoPassword ELSE KeyText[derivedKey.argon2]

\* no access to the password records is granted
NoAccess == [granted |-> FALSE]

\* the length of the access to the password records, in ticks of the clock:
\* shorter than the idle timeout
\* a window as long as the idle timeout of the session
PasswordsAccessWindow_asLong == IdleTimeout

PasswordsAccessWindow == 1

\* Storage::isPasswordsAccessUnlocked: the access is granted, has not
\* expired, and the vault is unlocked
Storage_isPasswordsAccessUnlocked ==
    /\ passwordsAccess.granted
    /\ passwordsAccess.idle < PasswordsAccessWindow
    /\ isUnlocked

\* Storage::unlockPasswordsAccess
Storage_unlockPasswordsAccess == passwordsAccess' = [granted |-> TRUE, idle |-> 0]

\* Storage::lockPasswordsAccess
Storage_lockPasswordsAccess == passwordsAccess' = NoAccess

\* Storage::updatePasswordsActivity: the window starts again while the
\* access is unlocked
Storage_updatePasswordsActivity ==
    passwordsAccess' = IF Storage_isPasswordsAccessUnlocked
                       THEN [granted |-> TRUE, idle |-> 0]
                       ELSE passwordsAccess

setDerivedKey(key) ==
    /\ derivedKey' = key
    /\ idleTime' = 0
    /\ UNCHANGED passwordsAccess

\* lock that discards the key and keeps the access to the password records
lock_keepsAccess ==
    /\ derivedKey' = NoKey
    /\ idleTime' = 0
    /\ UNCHANGED passwordsAccess

\* the key is discarded, and the access to the password records with it
lock ==
    /\ derivedKey' = NoKey
    /\ idleTime' = 0
    /\ passwordsAccess' = NoAccess

updateActivity ==
    /\ idleTime' = IF isUnlocked THEN 0 ELSE idleTime
    /\ UNCHANGED <<derivedKey, passwordsAccess>>

---------------------------------------------------------------------------
(* commands/vault.rs *)

\* Argon2 of the password under a salt fixed by the password's length: the
\* key is a function of the password, and is not the password
deriveKeyFromPassword(password) == [argon2 |-> password]

\* setupMasterPassword without the check that the vault is already set up
setupMasterPassword_overwrites(password) ==
    /\ storedHash' = hashMasterPassword(password)
    /\ setDerivedKey(deriveKeyFromPassword(password))
    /\ last' = [cmd |-> "setupMasterPassword", password |-> password,
                ret |-> Ok(Unit)]
    /\ UNCHANGED files

\* setupMasterPassword that writes the hash and leaves the vault locked
setupMasterPassword_staysLocked(password) ==
    IF isVaultSetup
    THEN /\ last' = [cmd |-> "setupMasterPassword", password |-> password,
                     ret |-> Err("Master password already set up")]
         /\ UNCHANGED <<storedHash, derivedKey, idleTime, passwordsAccess, files>>
    ELSE /\ storedHash' = hashMasterPassword(password)
         /\ last' = [cmd |-> "setupMasterPassword", password |-> password,
                     ret |-> Ok(Unit)]
         /\ UNCHANGED <<derivedKey, idleTime, passwordsAccess, files>>

\* setupMasterPassword that writes the hash before it finds the vault set up
setupMasterPassword_writesThenFails(password) ==
    IF isVaultSetup
    THEN /\ storedHash' = hashMasterPassword(password)
         /\ last' = [cmd |-> "setupMasterPassword", password |-> password,
                     ret |-> Err("Master password already set up")]
         /\ UNCHANGED <<derivedKey, idleTime, passwordsAccess, files>>
    ELSE /\ storedHash' = hashMasterPassword(password)
         /\ setDerivedKey(deriveKeyFromPassword(password))
         /\ last' = [cmd |-> "setupMasterPassword", password |-> password,
                     ret |-> Ok(Unit)]
         /\ UNCHANGED files

setupMasterPassword(password) ==
    IF isVaultSetup
    THEN /\ last' = [cmd |-> "setupMasterPassword", password |-> password,
                     ret |-> Err("Master password already set up")]
         /\ UNCHANGED <<storedHash, derivedKey, idleTime, passwordsAccess, files>>
    ELSE /\ storedHash' = hashMasterPassword(password)
         /\ setDerivedKey(deriveKeyFromPassword(password))
         /\ last' = [cmd |-> "setupMasterPassword", password |-> password,
                     ret |-> Ok(Unit)]
         /\ UNCHANGED files

\* unlockVault that derives and stores the key before it verifies the
\* password
unlockVault_keyFirst(password) ==
    IF storedHash = NoHash
    THEN /\ last' = [cmd |-> "unlockVault", password |-> password,
                     ret |-> Err("Vault not set up - no master password")]
         /\ UNCHANGED <<storedHash, derivedKey, idleTime, passwordsAccess, files>>
    ELSE /\ setDerivedKey(deriveKeyFromPassword(password))
         /\ last' = [cmd |-> "unlockVault", password |-> password,
                     ret |-> Ok(verifyMasterPassword(password, storedHash))]
         /\ UNCHANGED <<storedHash, files>>

\* unlockVault that answers true and does not store the key
unlockVault_noKey(password) ==
    IF storedHash = NoHash
    THEN /\ last' = [cmd |-> "unlockVault", password |-> password,
                     ret |-> Err("Vault not set up - no master password")]
         /\ UNCHANGED <<storedHash, derivedKey, idleTime, passwordsAccess, files>>
    ELSE /\ last' = [cmd |-> "unlockVault", password |-> password,
                     ret |-> Ok(verifyMasterPassword(password, storedHash))]
         /\ UNCHANGED <<storedHash, derivedKey, idleTime, passwordsAccess, files>>

\* unlockVault that answers false when no hash is stored
unlockVault_falseWithoutHash(password) ==
    IF storedHash = NoHash
    THEN /\ last' = [cmd |-> "unlockVault", password |-> password,
                     ret |-> Ok(FALSE)]
         /\ UNCHANGED <<storedHash, derivedKey, idleTime, passwordsAccess, files>>
    ELSE IF ~verifyMasterPassword(password, storedHash)
    THEN /\ last' = [cmd |-> "unlockVault", password |-> password,
                     ret |-> Ok(FALSE)]
         /\ UNCHANGED <<storedHash, derivedKey, idleTime, passwordsAccess, files>>
    ELSE /\ setDerivedKey(deriveKeyFromPassword(password))
         /\ last' = [cmd |-> "unlockVault", password |-> password,
                     ret |-> Ok(TRUE)]
         /\ UNCHANGED <<storedHash, files>>

unlockVault(password) ==
    IF storedHash = NoHash
    THEN /\ last' = [cmd |-> "unlockVault", password |-> password,
                     ret |-> Err("Vault not set up - no master password")]
         /\ UNCHANGED <<storedHash, derivedKey, idleTime, passwordsAccess, files>>
    ELSE IF ~verifyMasterPassword(password, storedHash)
    THEN /\ last' = [cmd |-> "unlockVault", password |-> password,
                     ret |-> Ok(FALSE)]
         /\ UNCHANGED <<storedHash, derivedKey, idleTime, passwordsAccess, files>>
    ELSE /\ setDerivedKey(deriveKeyFromPassword(password))
         /\ last' = [cmd |-> "unlockVault", password |-> password,
                     ret |-> Ok(TRUE)]
         /\ UNCHANGED <<storedHash, files>>

lockVault ==
    /\ lock
    /\ last' = [cmd |-> "lockVault", ret |-> Ok(Unit)]
    /\ UNCHANGED <<storedHash, files>>

updateVaultActivity ==
    /\ updateActivity
    /\ last' = [cmd |-> "updateVaultActivity", ret |-> Ok(Unit)]
    /\ UNCHANGED <<storedHash, files>>

\* reEncryptFile with the content blob carried over as it is: only the
\* metadata is sealed again
reEncryptFile_metadataOnly(fs, path, oldPassword, newPassword) ==
    LET content == fs[path].raw IN
    IF ~IsMd(path) \/ ~isEncryptedFormat(content) THEN [fs |-> fs, res |-> Ok(Unit)]
    ELSE LET encrypted == parseEncryptedFile(content) IN
         IF ~encrypted.ok THEN [fs |-> fs, res |-> encrypted]
         ELSE LET metadata == decryptMetadata(encrypted.val.metadata, oldPassword) IN
              IF ~metadata.ok THEN [fs |-> fs, res |-> metadata]
              ELSE [fs |-> [fs EXCEPT ![path] =
                               File(toEncryptedFile(encryptMetadata(metadata.val, newPassword),
                                                    encrypted.val.content))],
                    res |-> Ok(Unit)]

\* reEncryptFile without the test of the extension: every file in the
\* encrypted format is sealed again
reEncryptFile_anyExtension(fs, path, oldPassword, newPassword) ==
    LET content == fs[path].raw IN
    IF ~isEncryptedFormat(content) THEN [fs |-> fs, res |-> Ok(Unit)]
    ELSE LET encrypted == parseEncryptedFile(content) IN
         IF ~encrypted.ok THEN [fs |-> fs, res |-> encrypted]
         ELSE LET metadata == decryptMetadata(encrypted.val.metadata, oldPassword) IN
              IF ~metadata.ok THEN [fs |-> fs, res |-> metadata]
              ELSE LET body == decryptContent(encrypted.val.content, oldPassword) IN
                   IF ~body.ok THEN [fs |-> fs, res |-> body]
                   ELSE [fs |-> [fs EXCEPT ![path] =
                                    File(createEncryptedFile(metadata.val, body.val, newPassword))],
                         res |-> Ok(Unit)]

\* one file of the walk of reEncryptDirectory: the file system after it and
\* whether the walk goes on
reEncryptFile(fs, path, oldPassword, newPassword) ==
    LET content == fs[path].raw IN
    IF ~IsMd(path) \/ ~isEncryptedFormat(content) THEN [fs |-> fs, res |-> Ok(Unit)]
    ELSE LET encrypted == parseEncryptedFile(content) IN
         IF ~encrypted.ok THEN [fs |-> fs, res |-> encrypted]
         ELSE LET metadata == decryptMetadata(encrypted.val.metadata, oldPassword) IN
              IF ~metadata.ok THEN [fs |-> fs, res |-> metadata]
              ELSE LET body == decryptContent(encrypted.val.content, oldPassword) IN
                   IF ~body.ok THEN [fs |-> fs, res |-> body]
                   ELSE [fs |-> [fs EXCEPT ![path] =
                                    File(createEncryptedFile(metadata.val, body.val, newPassword))],
                         res |-> Ok(Unit)]

\* the walk over the files in the order read_dir yields them; it stops at
\* the first error
RECURSIVE reEncryptDirectory(_, _, _, _)
reEncryptDirectory(fs, order, oldPassword, newPassword) ==
    IF order = <<>> THEN [fs |-> fs, res |-> Ok(Unit)]
    ELSE LET step == reEncryptFile(fs, Head(order), oldPassword, newPassword) IN
         IF ~step.res.ok THEN step
         ELSE reEncryptDirectory(step.fs, Tail(order), oldPassword, newPassword)

\* the enumerations of a set
Perms(S) ==
    {s \in [1..Cardinality(S) -> S] : \A i, j \in 1..Cardinality(S) : s[i] = s[j] => i = j}

Existing(fs, dir) == {p \in Paths : p[1] = dir /\ fs[p].exists}

\* the orders in which the recursive walk below foldersDir(ws) can meet the
\* .md files: read_dir yields the entries of a directory in any order
WalkOrders(fs) ==
    LET root == Perms(Existing(fs, RootNotes))
        sub == Perms(Existing(fs, FolderNotes))
        md == Perms(Existing(fs, FolderDir))
        folder == {m \o s : m \in md, s \in sub} \cup {s \o m : m \in md, s \in sub}
    IN  {r \o f : r \in root, f \in folder} \cup {f \o r : r \in root, f \in folder}

\* reEncryptAllFiles that leaves the files as they were when the walk fails
reEncryptAllFiles_rollsBack(fs, order, oldPassword, newPassword) ==
    LET walk == reEncryptDirectory(fs, order, oldPassword, newPassword) IN
    IF walk.res.ok THEN walk ELSE [fs |-> fs, res |-> walk.res]

\* reEncryptAllFiles walks foldersDir(ws)
reEncryptAllFiles(fs, order, oldPassword, newPassword) ==
    reEncryptDirectory(fs, order, oldPassword, newPassword)

\* changeMasterPasswordVault with the new hash written before the current
\* password is verified
changeMasterPasswordVault_hashFirst(oldPassword, newPassword) ==
    LET args == [cmd |-> "changeMasterPasswordVault",
                 oldPassword |-> oldPassword, newPassword |-> newPassword] IN
    IF storedHash = NoHash
    THEN /\ last' = args @@ [ret |-> Err("Vault not set up")]
         /\ UNCHANGED <<storedHash, derivedKey, idleTime, passwordsAccess, files>>
    ELSE IF ~verifyMasterPassword(oldPassword, storedHash)
    THEN /\ storedHash' = hashMasterPassword(newPassword)
         /\ last' = args @@ [ret |-> Err("Current password is incorrect")]
         /\ UNCHANGED <<derivedKey, idleTime, passwordsAccess, files>>
    ELSE \E order \in WalkOrders(files) :
         LET walk == reEncryptAllFiles(files, order, oldPassword, newPassword) IN
         /\ storedHash' = hashMasterPassword(newPassword)
         /\ files' = walk.fs
         /\ IF walk.res.ok
            THEN /\ setDerivedKey(deriveKeyFromPassword(newPassword))
                 /\ last' = args @@ [order |-> order, ret |-> Ok(Unit)]
            ELSE /\ UNCHANGED <<derivedKey, idleTime, passwordsAccess>>
                 /\ last' = args @@ [order |-> order, ret |-> walk.res]

changeMasterPasswordVault(oldPassword, newPassword) ==
    LET args == [cmd |-> "changeMasterPasswordVault",
                 oldPassword |-> oldPassword, newPassword |-> newPassword] IN
    IF storedHash = NoHash
    THEN /\ last' = args @@ [ret |-> Err("Vault not set up")]
         /\ UNCHANGED <<storedHash, derivedKey, idleTime, passwordsAccess, files>>
    ELSE IF ~verifyMasterPassword(oldPassword, storedHash)
    THEN /\ last' = args @@ [ret |-> Err("Current password is incorrect")]
         /\ UNCHANGED <<storedHash, derivedKey, idleTime, passwordsAccess, files>>
    ELSE \E order \in WalkOrders(files) :
         LET walk == reEncryptAllFiles(files, order, oldPassword, newPassword) IN
         /\ storedHash' = hashMasterPassword(newPassword)
         /\ files' = walk.fs
         /\ IF walk.res.ok
            THEN /\ setDerivedKey(deriveKeyFromPassword(newPassword))
                 /\ last' = args @@ [order |-> order, ret |-> Ok(Unit)]
            ELSE /\ UNCHANGED <<derivedKey, idleTime, passwordsAccess>>
                 /\ last' = args @@ [order |-> order, ret |-> walk.res]

---------------------------------------------------------------------------
(* commands/note.rs *)

\* a command that returns an error before it has changed anything
Reject(args, e) ==
    /\ last' = args @@ [ret |-> Err(e)]
    /\ UNCHANGED <<storedHash, derivedKey, idleTime, passwordsAccess, files>>

\* the frontmatter of the note in the file, when the scan can read it:
\* an encrypted file needs the password, its markers and its metadata
\* blob; any other file is read as legacy plain frontmatter
noteFrontmatter(raw, masterPassword) ==
    IF isEncryptedFormat(raw)
    THEN IF masterPassword = NoPassword THEN Err("no password")
         ELSE LET encrypted == parseEncryptedFile(raw) IN
              IF ~encrypted.ok THEN encrypted
              ELSE LET yamlContent == decryptMetadata(encrypted.val.metadata, masterPassword) IN
                   IF ~yamlContent.ok THEN yamlContent
                   ELSE IF "kind" \in DOMAIN yamlContent.val /\ yamlContent.val.kind = "note"
                        THEN yamlContent
                        ELSE Err("yaml")
    ELSE LET legacy == parseFrontmatter(raw) IN
         IF ~legacy.ok THEN legacy
         ELSE IF "kind" \in DOMAIN legacy.val.frontmatter
                 /\ legacy.val.frontmatter.kind = "note"
              THEN Ok(legacy.val.frontmatter)
              ELSE Err("yaml")

\* the content the scan keeps with the note: the body of a legacy file,
\* nothing for an encrypted file, whose content is decrypted on demand
noteContent(raw) ==
    IF isEncryptedFormat(raw) THEN Text("") ELSE parseFrontmatter(raw).val.body

\* the notes a scan of one directory returns; files it cannot read are
\* skipped without an error
scanNotesInFolder(fs, folderPath, masterPassword) ==
    {[path |-> p,
      frontmatter |-> noteFrontmatter(fs[p].raw, masterPassword).val,
      content |-> noteContent(fs[p].raw)] :
        p \in {q \in Existing(fs, folderPath) : noteFrontmatter(fs[q].raw, masterPassword).ok}}

\* the root notes directory, then the notes directory of every folder
scanAllNotes(fs, masterPassword) ==
    scanNotesInFolder(fs, RootNotes, masterPassword)
        \cup scanNotesInFolder(fs, FolderNotes, masterPassword)

Matching(notes, id) == {n \in notes : n.frontmatter.id = id}

\* "search in regular folders first, if not found check trash"
findNote(fs, id, masterPassword) ==
    LET regular == Matching(scanAllNotes(fs, masterPassword), id)
        trashed == Matching(scanNotesInFolder(fs, TrashNotes, masterPassword), id)
    IN  IF regular # {} THEN regular ELSE trashed

\* the body of the note file at path, as the commands read it back
readBody(fs, path, masterPassword) ==
    LET fileContent == fs[path].raw IN
    IF isEncryptedFormat(fileContent)
    THEN LET encrypted == parseEncryptedFile(fileContent) IN
         IF ~encrypted.ok THEN encrypted
         ELSE decryptContent(encrypted.val.content, masterPassword)
    ELSE Ok(noteContent(fileContent))

serializeAndEncrypt(frontmatter, body, masterPassword) ==
    createEncryptedFile(frontmatter, body, masterPassword)

\* ids no file is named after: what newId() can return
FreshIds(fs) == {i \in NoteIds : \A d \in NoteDirs : ~fs[<<d, i>>].exists}

getNotes(folderPath) ==
    LET args == [cmd |-> "getNotes", folderPath |-> folderPath] IN
    IF ~isUnlocked THEN Reject(args, VaultLocked)
    ELSE LET masterPassword == getMasterPassword
             notes == IF folderPath = FolderDir
                      THEN scanNotesInFolder(files, FolderNotes, masterPassword)
                      ELSE scanAllNotes(files, masterPassword)
         IN  /\ updateActivity
             /\ last' = args @@ [ret |-> Ok({n.frontmatter.id : n \in notes})]
             /\ UNCHANGED <<storedHash, files>>

getNoteContent(id) ==
    LET args == [cmd |-> "getNoteContent", id |-> id] IN
    IF ~isUnlocked THEN Reject(args, VaultLocked)
    ELSE LET masterPassword == getMasterPassword
             found == findNote(files, id, masterPassword)
         IN  IF found = {} THEN Reject(args, "Note not found")
             ELSE \E note \in found :
                  LET content == readBody(files, note.path, masterPassword) IN
                  IF ~content.ok THEN Reject(args, content.err)
                  ELSE /\ updateActivity
                       /\ last' = args @@ [ret |-> content]
                       /\ UNCHANGED <<storedHash, files>>

createNote(folderPath, content) ==
    LET args == [cmd |-> "createNote", folderPath |-> folderPath, content |-> content] IN
    IF ~isUnlocked THEN Reject(args, VaultLocked)
    ELSE \E id \in FreshIds(files) :
         LET masterPassword == getMasterPassword
             dir == IF folderPath = FolderDir THEN FolderNotes ELSE RootNotes
             fileContent == serializeAndEncrypt(NoteYaml(id), Text(content), masterPassword)
         IN  /\ files' = [files EXCEPT ![<<dir, id>>] = File(fileContent)]
             /\ updateActivity
             /\ last' = args @@ [ret |-> Ok(id)]
             /\ UNCHANGED storedHash

\* updateNote that writes a legacy file back in the legacy format
updateNote_keepsFormat(id, content) ==
    LET args == [cmd |-> "updateNote", id |-> id, content |-> content] IN
    IF ~isUnlocked THEN Reject(args, VaultLocked)
    ELSE LET masterPassword == getMasterPassword
             found == findNote(files, id, masterPassword)
         IN  IF found = {} THEN Reject(args, "Note not found")
             ELSE \E note \in found :
                  LET body == readBody(files, note.path, masterPassword) IN
                  IF ~body.ok THEN Reject(args, body.err)
                  ELSE /\ files' = [files EXCEPT ![note.path] =
                               IF isEncryptedFormat(files[note.path].raw)
                               THEN File(serializeAndEncrypt(note.frontmatter, Text(content),
                                                             masterPassword))
                               ELSE File(toMarkdown(note.frontmatter, Text(content)))]
                       /\ updateActivity
                       /\ last' = args @@ [ret |-> Ok(Unit)]
                       /\ UNCHANGED storedHash

updateNote(id, content) ==
    LET args == [cmd |-> "updateNote", id |-> id, content |-> content] IN
    IF ~isUnlocked THEN Reject(args, VaultLocked)
    ELSE LET masterPassword == getMasterPassword
             found == findNote(files, id, masterPassword)
         IN  IF found = {} THEN Reject(args, "Note not found")
             ELSE \E note \in found :
                  LET body == readBody(files, note.path, masterPassword) IN
                  IF ~body.ok THEN Reject(args, body.err)
                  ELSE /\ files' = [files EXCEPT ![note.path] =
                               File(serializeAndEncrypt(note.frontmatter, Text(content),
                                                        masterPassword))]
                       /\ updateActivity
                       /\ last' = args @@ [ret |-> Ok(Unit)]
                       /\ UNCHANGED storedHash

deleteNote(id, permanent) ==
    LET args == [cmd |-> "deleteNote", id |-> id, permanent |-> permanent] IN
    IF ~isUnlocked THEN Reject(args, VaultLocked)
    ELSE LET masterPassword == getMasterPassword
             found == findNote(files, id, masterPassword)
         IN  IF found = {} THEN Reject(args, "Note not found")
             ELSE \E note \in found :
                  LET isInTrash == note.path[1] = TrashNotes IN
                  /\ files' = IF permanent \/ isInTrash
                              THEN [files EXCEPT ![note.path] = NoFile]
                              ELSE [files EXCEPT ![note.path] = NoFile,
                                                 ![<<TrashNotes, note.path[2]>>] = files[note.path]]
                  /\ updateActivity
                  /\ last' = args @@ [ret |-> Ok(Unit)]
                  /\ UNCHANGED storedHash

\* foldersDir(ws): the folder whose notes directory is the root one
RootDir == "folders"

\* PathBuf::from(targetFolderPath).join("notes")
TargetNotesDir(targetFolderPath) ==
    IF targetFolderPath = FolderDir THEN FolderNotes ELSE RootNotes

\* the note is sealed again into the notes directory of the target
\* folder, then the file it was read from is removed
moveNoteToFolder(id, targetFolderPath) ==
    LET args == [cmd |-> "moveNoteToFolder", id |-> id,
                 targetFolderPath |-> targetFolderPath] IN
    IF ~isUnlocked THEN Reject(args, VaultLocked)
    ELSE LET masterPassword == getMasterPassword
             found == findNote(files, id, masterPassword)
         IN  IF found = {} THEN Reject(args, "Note not found")
             ELSE \E note \in found :
                  LET newPath == <<TargetNotesDir(targetFolderPath), note.frontmatter.id>>
                      body == readBody(files, note.path, masterPassword)
                      written == [files EXCEPT ![newPath] =
                                    File(serializeAndEncrypt(note.frontmatter, body.val,
                                                             masterPassword))]
                  IN  IF ~body.ok THEN Reject(args, body.err)
                      ELSE /\ files' = [written EXCEPT ![note.path] = NoFile]
                           /\ updateActivity
                           /\ last' = args @@ [ret |-> Ok(note.frontmatter.id)]
                           /\ UNCHANGED storedHash

---------------------------------------------------------------------------
(* commands/folder.rs *)

\* the frontmatter of .folder.md when scanFolders can read it
folderFrontmatter(raw, masterPassword) ==
    IF isEncryptedFormat(raw) /\ masterPassword # NoPassword
    THEN LET encrypted == parseEncryptedFile(raw) IN
         IF ~encrypted.ok THEN encrypted
         ELSE LET yaml == decryptMetadata(encrypted.val.metadata, masterPassword) IN
              IF ~yaml.ok THEN yaml
              ELSE IF "kind" \in DOMAIN yaml.val /\ yaml.val.kind = "folder"
                   THEN yaml
                   ELSE Err("yaml")
    ELSE Err("skipped")

scanFolders(fs, masterPassword) ==
    {p[1] : p \in {q \in Existing(fs, FolderDir) :
                      folderFrontmatter(fs[q].raw, masterPassword).ok}}

getFolders ==
    LET args == [cmd |-> "getFolders"] IN
    IF ~isUnlocked THEN Reject(args, VaultLocked)
    ELSE /\ updateActivity
         /\ last' = args @@ [ret |-> Ok(scanFolders(files, getMasterPassword))]
         /\ UNCHANGED <<storedHash, files>>

createFolder ==
    LET args == [cmd |-> "createFolder"] IN
    IF ~isUnlocked THEN Reject(args, VaultLocked)
    ELSE /\ \A p \in UnderFolderDir : ~files[p].exists
         /\ files' = [files EXCEPT ![<<FolderDir, FolderMd>>] =
                File(createEncryptedFile(FolderYaml, Text(""), getMasterPassword))]
         /\ updateActivity
         /\ last' = args @@ [ret |-> Ok(FolderDir)]
         /\ UNCHANGED storedHash

\* every .md file of the folder's notes directory is renamed into the trash
moveAllItemsToTrash(fs) ==
    [p \in Paths |->
        IF p[1] = FolderNotes THEN NoFile
        ELSE IF p[1] = TrashNotes /\ fs[<<FolderNotes, p[2]>>].exists
             THEN fs[<<FolderNotes, p[2]>>]
             ELSE fs[p]]

\* remove_dir_all of the folder directory
removeFolderDir(fs) == [p \in Paths |-> IF p \in UnderFolderDir THEN NoFile ELSE fs[p]]

deleteFolder(permanent) ==
    LET args == [cmd |-> "deleteFolder", path |-> FolderDir, permanent |-> permanent] IN
    /\ files' = removeFolderDir(IF permanent THEN files ELSE moveAllItemsToTrash(files))
    /\ last' = args @@ [ret |-> Ok(Unit)]
    /\ UNCHANGED <<storedHash, derivedKey, idleTime, passwordsAccess>>

---------------------------------------------------------------------------
(* commands/trash.rs *)

\* the trashed notes the listing returns: encrypted files it can read
scanTrashNotes(fs, masterPassword) ==
    {n.frontmatter.id : n \in scanNotesInFolder(fs, TrashNotes, masterPassword)}

listTrashNotes ==
    LET args == [cmd |-> "listTrashNotes"] IN
    IF ~isUnlocked THEN Reject(args, VaultLocked)
    ELSE /\ last' = args @@ [ret |-> Ok(scanTrashNotes(files, getMasterPassword))]
         /\ UNCHANGED <<storedHash, derivedKey, idleTime, passwordsAccess, files>>

\* remove_dir_all of the trash directory
removeTrash(fs) == [p \in Paths |-> IF p[1] = TrashNotes THEN NoFile ELSE fs[p]]

emptyTrash ==
    /\ files' = removeTrash(files)
    /\ updateActivity
    /\ last' = [cmd |-> "emptyTrash", ret |-> Ok(Unit)]
    /\ UNCHANGED storedHash

\* every trashed .md file is renamed into the root notes directory
restoreNotes(fs) ==
    [p \in Paths |->
        IF p[1] = RootNotes /\ fs[<<TrashNotes, p[2]>>].exists
        THEN fs[<<TrashNotes, p[2]>>]
        ELSE fs[p]]

restoreAllFromTrash ==
    LET args == [cmd |-> "restoreAllFromTrash"] IN
    IF ~isUnlocked THEN Reject(args, VaultLocked)
    ELSE /\ files' = removeTrash(restoreNotes(files))
         /\ updateActivity
         /\ last' = args @@ [ret |-> Ok(Unit)]
         /\ UNCHANGED storedHash

---------------------------------------------------------------------------
(* The clock *)

\* time passes; when the idle timeout has elapsed the session is locked.
\* The time since the access to the password records was granted is counted
\* until its window has elapsed
Tick ==
    /\ derivedKey # NoKey
    /\ IF idleTime + 1 < IdleTimeout
       THEN /\ idleTime' = idleTime + 1
            /\ passwordsAccess' =
                  IF passwordsAccess.granted
                     /\ passwordsAccess.idle < PasswordsAccessWindow
                  THEN [granted |-> TRUE, idle |-> passwordsAccess.idle + 1]
                  ELSE passwordsAccess
            /\ UNCHANGED derivedKey
       ELSE lock
    /\ UNCHANGED <<storedHash, files, last>>

---------------------------------------------------------------------------
(* Initial states: a new workspace, or an existing one whose hash file and *)
(* record files are already on disk.  The records of an existing workspace *)
(* are files in the encrypted format sealed under its master password.     *)

StoredNote(id, password) ==
    File(createEncryptedFile(NoteYaml(id), Text("x"), password))

StoredFolder(password) ==
    File(createEncryptedFile(FolderYaml, Text(""), password))

InitDisks(password) ==
    {[p \in Paths |->
        IF p = <<RootNotes, "n1">> /\ root THEN StoredNote("n1", password)
        ELSE IF p = <<FolderNotes, "n2">> /\ sub THEN StoredNote("n2", password)
        ELSE IF p = <<FolderDir, FolderMd>> /\ md THEN StoredFolder(password)
        ELSE NoFile] : root \in BOOLEAN, sub \in BOOLEAN, md \in BOOLEAN}

NoRotation == [pc |-> "idle"]

NoCall == [pc |-> "idle"]

Init ==
    /\ derivedKey = NoKey
    /\ idleTime = 0
    /\ last = Idle
    /\ rot = NoRotation
    /\ mcp = NoCall
    /\ passwordsAccess = NoAccess
    /\ passwordFiles = [id \in PasswordIds |-> NoFile]
    /\ drawn = {}
    /\ sealed = <<>>
    /\ sealedFiles = <<>>
    /\ \/ /\ storedHash = NoHash
          /\ files = [p \in Paths |-> NoFile]
       \/ \E password \in Passwords :
          /\ storedHash = hashMasterPassword(password)
          /\ files \in InitDisks(password)

VaultCommand ==
    \/ \E password \in Passwords : setupMasterPassword(password)
    \/ \E password \in Passwords : unlockVault(password)
    \/ lockVault
    \/ \E oldPassword, newPassword \in Passwords :
          changeMasterPasswordVault(oldPassword, newPassword)
    \/ updateVaultActivity

NoteCommand ==
    \/ \E folderPath \in {"", FolderDir} : getNotes(folderPath)
    \/ \E id \in NoteIds : getNoteContent(id)
    \/ \E folderPath \in {"", FolderDir}, content \in Bodies : createNote(folderPath, content)
    \/ \E id \in NoteIds, content \in Bodies : updateNote(id, content)
    \/ \E id \in NoteIds, permanent \in BOOLEAN : deleteNote(id, permanent)

FolderCommand ==
    \/ getFolders
    \/ createFolder
    \/ \E permanent \in BOOLEAN : deleteFolder(permanent)

TrashCommand ==
    \/ listTrashNotes
    \/ emptyTrash
    \/ restoreAllFromTrash

\* the caller takes the answer of the command
Return ==
    /\ last # Idle
    /\ last' = Idle
    /\ UNCHANGED <<storedHash, derivedKey, idleTime, passwordsAccess, files, rot, mcp,
                   passwordFiles, drawn, sealed, sealedFiles>>

\* the commands run one at a time: the caller invokes the next one when it
\* has the answer of the one before
Invoke ==
    /\ last = Idle
    /\ \/ VaultCommand
       \/ NoteCommand
       \/ FolderCommand
       \/ TrashCommand
       \/ Tick
    /\ UNCHANGED <<rot, mcp, passwordFiles, drawn, sealed, sealedFiles>>

Next ==
    \/ Invoke
    \/ Return

Spec == Init /\ [][Next]_vars

---------------------------------------------------------------------------
(* The access to the password records (commands/vault.rs) and the password *)
(* commands (commands/password.rs), with the session commands.  The        *)
(* password records are the files of folders/passwords.                    *)

\* the command returns the bool of Storage
isPasswordsAccessUnlocked ==
    /\ last' = [cmd |-> "isPasswordsAccessUnlocked",
                ret |-> Ok(Storage_isPasswordsAccessUnlocked)]
    /\ UNCHANGED <<storedHash, derivedKey, idleTime, passwordsAccess, files>>

\* unlockPasswordsAccess that grants the access before it verifies the
\* password
unlockPasswordsAccess_grantFirst(password) ==
    LET args == [cmd |-> "unlockPasswordsAccess", password |-> password] IN
    IF ~isUnlocked THEN Reject(args, "Vault is not unlocked")
    ELSE IF storedHash = NoHash THEN Reject(args, "Vault not set up")
    ELSE /\ Storage_unlockPasswordsAccess
         /\ last' = args @@ [ret |-> Ok(verifyMasterPassword(password, storedHash))]
         /\ UNCHANGED <<storedHash, derivedKey, idleTime, files>>

\* unlockPasswordsAccess without the check that the vault is unlocked
unlockPasswordsAccess_noVaultCheck(password) ==
    LET args == [cmd |-> "unlockPasswordsAccess", password |-> password] IN
    IF storedHash = NoHash THEN Reject(args, "Vault not set up")
    ELSE IF ~verifyMasterPassword(password, storedHash)
    THEN /\ last' = args @@ [ret |-> Ok(FALSE)]
         /\ UNCHANGED <<storedHash, derivedKey, idleTime, passwordsAccess, files>>
    ELSE /\ Storage_unlockPasswordsAccess
         /\ last' = args @@ [ret |-> Ok(TRUE)]
         /\ UNCHANGED <<storedHash, derivedKey, idleTime, files>>

unlockPasswordsAccess(password) ==
    LET args == [cmd |-> "unlockPasswordsAccess", password |-> password] IN
    IF ~isUnlocked THEN Reject(args, "Vault is not unlocked")
    ELSE IF storedHash = NoHash THEN Reject(args, "Vault not set up")
    ELSE IF ~verifyMasterPassword(password, storedHash)
    THEN /\ last' = args @@ [ret |-> Ok(FALSE)]
         /\ UNCHANGED <<storedHash, derivedKey, idleTime, passwordsAccess, files>>
    ELSE /\ Storage_unlockPasswordsAccess
         /\ last' = args @@ [ret |-> Ok(TRUE)]
         /\ UNCHANGED <<storedHash, derivedKey, idleTime, files>>

lockPasswordsAccess ==
    /\ Storage_lockPasswordsAccess
    /\ last' = [cmd |-> "lockPasswordsAccess", ret |-> Ok(Unit)]
    /\ UNCHANGED <<storedHash, derivedKey, idleTime, files>>

updatePasswordsActivity ==
    /\ Storage_updatePasswordsActivity
    /\ last' = [cmd |-> "updatePasswordsActivity", ret |-> Ok(Unit)]
    /\ UNCHANGED <<storedHash, derivedKey, idleTime, files>>

\* serde_yaml::to_string of a PasswordFrontmatter
PasswordYaml(id) == [kind |-> "password", id |-> id]

\* serde_json::to_string of a PasswordContent
PasswordJson(secret) == [json |-> secret]

\* the password of the file, when the scan can read it: the file is in the
\* encrypted format and its metadata decrypts to a PasswordFrontmatter
processPasswordFile(raw, masterPassword) ==
    IF isEncryptedFormat(raw)
    THEN IF masterPassword = NoPassword THEN Err("no password")
         ELSE LET encrypted == parseEncryptedFile(raw) IN
              IF ~encrypted.ok THEN encrypted
              ELSE LET yamlContent == decryptMetadata(encrypted.val.metadata, masterPassword) IN
                   IF ~yamlContent.ok THEN yamlContent
                   ELSE IF "kind" \in DOMAIN yamlContent.val
                           /\ yamlContent.val.kind = "password"
                        THEN Ok([frontmatter |-> yamlContent.val,
                                 encryptedContent |-> encrypted.val.content])
                        ELSE Err("yaml")
    ELSE Err("not encrypted")

\* the passwords a scan of folders/passwords returns; files it cannot read
\* are skipped without an error
scanPasswordsInFolder(pf, masterPassword) ==
    {processPasswordFile(pf[id].raw, masterPassword).val :
        id \in {i \in PasswordIds : /\ pf[i].exists
                                     /\ processPasswordFile(pf[i].raw, masterPassword).ok}}

getPasswords ==
    LET args == [cmd |-> "getPasswords"] IN
    IF ~isUnlocked THEN Reject(args, VaultLocked) /\ UNCHANGED passwordFiles
    ELSE LET passwords == scanPasswordsInFolder(passwordFiles, getMasterPassword) IN
         /\ updateActivity
         /\ last' = args @@ [ret |-> Ok({p.frontmatter.id : p \in passwords})]
         /\ UNCHANGED <<storedHash, files, passwordFiles>>

\* the trash holds no password record
getPasswordContent(id) ==
    LET args == [cmd |-> "getPasswordContent", id |-> id] IN
    IF ~isUnlocked THEN Reject(args, VaultLocked) /\ UNCHANGED passwordFiles
    ELSE LET masterPassword == getMasterPassword
             found == {p \in scanPasswordsInFolder(passwordFiles, masterPassword) :
                          p.frontmatter.id = id}
         IN  IF found = {} THEN Reject(args, "Password not found") /\ UNCHANGED passwordFiles
             ELSE \E password \in found :
                  LET decrypted == IF password.encryptedContent = BlankLine
                                   THEN Ok(PasswordJson(""))
                                   ELSE decryptContent(password.encryptedContent,
                                                       masterPassword)
                  IN  IF ~decrypted.ok
                      THEN Reject(args, decrypted.err) /\ UNCHANGED passwordFiles
                      ELSE /\ updateActivity
                           /\ last' = args @@ [ret |-> decrypted]
                           /\ UNCHANGED <<storedHash, files, passwordFiles>>

createPassword(secret) ==
    LET args == [cmd |-> "createPassword", secret |-> secret] IN
    IF ~isUnlocked THEN Reject(args, VaultLocked) /\ UNCHANGED passwordFiles
    ELSE \E id \in {i \in PasswordIds : ~passwordFiles[i].exists} :
         LET fileContent == createEncryptedFile(PasswordYaml(id), PasswordJson(secret),
                                                getMasterPassword)
         IN  /\ passwordFiles' = [passwordFiles EXCEPT ![id] = File(fileContent)]
             /\ updateActivity
             /\ last' = args @@ [ret |-> Ok(id)]
             /\ UNCHANGED <<storedHash, files>>

\* deletePassword with permanent = true
deletePassword(id) ==
    LET args == [cmd |-> "deletePassword", id |-> id, permanent |-> TRUE] IN
    IF ~isUnlocked THEN Reject(args, VaultLocked) /\ UNCHANGED passwordFiles
    ELSE LET found == {p \in scanPasswordsInFolder(passwordFiles, getMasterPassword) :
                          p.frontmatter.id = id}
         IN  IF found = {} THEN Reject(args, "Password not found") /\ UNCHANGED passwordFiles
             ELSE /\ passwordFiles' = [passwordFiles EXCEPT ![id] = NoFile]
                  /\ updateActivity
                  /\ last' = args @@ [ret |-> Ok(Unit)]
                  /\ UNCHANGED <<storedHash, files>>

PasswordsSessionCommand ==
    /\ \/ \E password \in Passwords : setupMasterPassword(password)
       \/ \E password \in Passwords : unlockVault(password)
       \/ lockVault
       \/ updateVaultActivity
       \/ Tick
    /\ UNCHANGED passwordFiles

PasswordsAccessCommand ==
    /\ \/ isPasswordsAccessUnlocked
       \/ \E password \in Passwords : unlockPasswordsAccess(password)
       \/ lockPasswordsAccess
       \/ updatePasswordsActivity
    /\ UNCHANGED passwordFiles

PasswordCommand ==
    \/ getPasswords
    \/ \E id \in PasswordIds : getPasswordContent(id)
    \/ \E secret \in Bodies : createPassword(secret)
    \/ \E id \in PasswordIds : deletePassword(id)

PasswordsInvoke ==
    /\ last = Idle
    /\ \/ PasswordsSessionCommand
       \/ PasswordsAccessCommand
       \/ PasswordCommand
    /\ UNCHANGED <<rot, mcp, drawn, sealed, sealedFiles>>

NextPasswords ==
    \/ PasswordsInvoke
    \/ Return

SpecPasswords == Init /\ [][NextPasswords]_vars

---------------------------------------------------------------------------
(* The cipher and the record codec called on their own: crypto::encrypt    *)
(* and encrypted_storage::createEncryptedFile, with the random generator.  *)
(* The generator is taken not to give the same value twice.                *)

RandomValues == 0 .. MaxRandom

\* crypto::encrypt(plaintext, masterPassword)
EncryptCall(plaintext, masterPassword) ==
    \E s, n \in RandomValues \ drawn :
       /\ s # n
       /\ LET salt == fill(s, SALT_SIZE)
              nonce_bytes == fill(n, NONCE_SIZE)
              encrypted == crypto_encrypt(plaintext, masterPassword, salt, nonce_bytes)
          IN  /\ drawn' = drawn \cup {s, n}
              /\ sealed' = Append(sealed, [blob |-> encrypted,
                                           plaintext |-> plaintext,
                                           masterPassword |-> masterPassword])
              /\ UNCHANGED sealedFiles

\* encrypted_storage::createEncryptedFile(yamlMetadata, bodyContent,
\* masterPassword): encrypt is called once for the metadata and once for
\* the content
CreateEncryptedFileCall(yamlMetadata, bodyContent, masterPassword) ==
    \E s1, n1, s2, n2 \in RandomValues \ drawn :
       /\ Cardinality({s1, n1, s2, n2}) = 4
       /\ LET encryptedMetadata ==
                  crypto_encrypt(yamlMetadata, masterPassword,
                                 fill(s1, SALT_SIZE), fill(n1, NONCE_SIZE))
              encryptedContent ==
                  crypto_encrypt(bodyContent, masterPassword,
                                 fill(s2, SALT_SIZE), fill(n2, NONCE_SIZE))
          IN  /\ drawn' = drawn \cup {s1, n1, s2, n2}
              /\ sealed' = sealed \o
                     <<[blob |-> encryptedMetadata, plaintext |-> yamlMetadata,
                        masterPassword |-> masterPassword],
                       [blob |-> encryptedContent, plaintext |-> bodyContent,
                        masterPassword |-> masterPassword]>>
              /\ sealedFiles' = Append(sealedFiles,
                     [raw |-> toEncryptedFile(encryptedMetadata, encryptedContent),
                      yamlMetadata |-> yamlMetadata,
                      bodyContent |-> bodyContent,
                      masterPassword |-> masterPassword])

\* a text that is no base64
NotBase64 == [t |-> "text", s |-> "%%%"]

\* the blob cut after its salt and nonce
Truncated(blob) ==
    Base64_encode(SubSeq(Base64_decode(blob).val, 1, SALT_SIZE + NONCE_SIZE))

\* the blob with the last byte of its tag changed
Tampered(blob) ==
    LET combined == Base64_decode(blob).val IN
    Base64_encode([combined EXCEPT ![Len(combined)] = Byte(0)])

\* what a caller may hand to decrypt: a blob encrypt has returned, as it
\* is or damaged, or a text that is no blob
Encrypteds ==
    {NotBase64} \cup
    UNION {{sealed[i].blob, Truncated(sealed[i].blob), Tampered(sealed[i].blob)} :
              i \in 1..Len(sealed)}

\* crypto::decrypt(encrypted, masterPassword)
DecryptCall(encrypted, masterPassword) ==
    /\ last' = [cmd |-> "decrypt", encrypted |-> encrypted,
                masterPassword |-> masterPassword,
                ret |-> crypto_decrypt(encrypted, masterPassword)]
    /\ UNCHANGED <<drawn, sealed, sealedFiles>>

InitCodec == Init /\ storedHash = NoHash

NextCodec ==
    /\ \/ \E plaintext \in Plaintexts, masterPassword \in Passwords :
             EncryptCall(plaintext, masterPassword)
       \/ \E yamlMetadata \in Yamls, bodyContent \in Plaintexts,
                masterPassword \in Passwords :
             CreateEncryptedFileCall(yamlMetadata, bodyContent, masterPassword)
    /\ UNCHANGED <<storedHash, derivedKey, idleTime, files, last, rot, mcp,
                   passwordsAccess, passwordFiles>>

SpecCodec == InitCodec /\ [][NextCodec]_vars

\* decrypt called on its own: encrypt has returned one blob
InitDecrypt ==
    /\ storedHash = NoHash
    /\ derivedKey = NoKey
    /\ idleTime = 0
    /\ files = [p \in Paths |-> NoFile]
    /\ last = Idle
    /\ rot = NoRotation
    /\ mcp = NoCall
    /\ passwordsAccess = NoAccess
    /\ passwordFiles = [id \in PasswordIds |-> NoFile]
    /\ sealedFiles = <<>>
    /\ \E plaintext \in Plaintexts, masterPassword \in Passwords, s, n \in RandomValues :
          /\ s # n
          /\ drawn = {s, n}
          /\ sealed = <<[blob |-> crypto_encrypt(plaintext, masterPassword,
                                                 fill(s, SALT_SIZE), fill(n, NONCE_SIZE)),
                         plaintext |-> plaintext,
                         masterPassword |-> masterPassword]>>

NextDecrypt ==
    /\ \E encrypted \in Encrypteds, masterPassword \in Passwords :
          DecryptCall(encrypted, masterPassword)
    /\ UNCHANGED <<storedHash, derivedKey, idleTime, files, rot, mcp,
                   passwordsAccess, passwordFiles>>

SpecDecrypt == InitDecrypt /\ [][NextDecrypt]_vars

---------------------------------------------------------------------------
(* The format functions of encrypted_storage.rs called on their own, on    *)
(* texts of a few lines.                                                   *)

\* a line that begins with the header and goes on
HeaderPlus == [t |-> "text", s |-> "CLAUDIA-ENCRYPTED-v1+"]

\* lines that are base64 blobs
Blobs == {Base64_encode(<<Byte(1)>>), Base64_encode(<<Byte(2)>>)}

Lines ==
    {FORMAT_HEADER, HeaderPlus, METADATA_MARKER, CONTENT_MARKER, BlankLine, Dashes}
        \cup Blobs

Raws == UNION {[1..n -> Lines] : n \in 0..MaxLines}

IsEncryptedFormatCall(raw) ==
    last' = [cmd |-> "isEncryptedFormat", raw |-> raw, ret |-> Ok(isEncryptedFormat(raw))]

ParseEncryptedFileCall(raw) ==
    last' = [cmd |-> "parseEncryptedFile", raw |-> raw, ret |-> parseEncryptedFile(raw)]

ToEncryptedFileCall(encryptedMetadata, encryptedContent) ==
    last' = [cmd |-> "toEncryptedFile",
             encryptedMetadata |-> encryptedMetadata,
             encryptedContent |-> encryptedContent,
             ret |-> Ok(toEncryptedFile(encryptedMetadata, encryptedContent))]

FormatInvoke ==
    /\ last = Idle
    /\ \/ \E raw \in Raws : IsEncryptedFormatCall(raw)
       \/ \E raw \in Raws : ParseEncryptedFileCall(raw)
       \/ \E encryptedMetadata, encryptedContent \in Blobs :
             ToEncryptedFileCall(encryptedMetadata, encryptedContent)
    /\ UNCHANGED <<storedHash, derivedKey, idleTime, files, rot, mcp,
                   passwordsAccess, passwordFiles, drawn, sealed, sealedFiles>>

NextFormat ==
    \/ FormatInvoke
    \/ Return

SpecFormat == InitCodec /\ [][NextFormat]_vars

---------------------------------------------------------------------------
(* A workspace of before the encryption: its notes are files in the legacy *)
(* format, and plain files lie in folders/passwords.                       *)

LegacyNote(id, body) == File(toMarkdown(NoteYaml(id), Text(body)))

LegacyDisks ==
    {[p \in Paths |-> IF p[1] = RootNotes /\ c[p[2]] # ""
                      THEN LegacyNote(p[2], c[p[2]])
                      ELSE NoFile] : c \in [NoteIds -> {""} \cup Bodies]}

LegacyPasswordDisks ==
    {[id \in PasswordIds |-> IF id \in ids
                             THEN File(toMarkdown(PasswordYaml(id), PasswordJson("x")))
                             ELSE NoFile] : ids \in SUBSET PasswordIds}

InitLegacy ==
    /\ derivedKey = NoKey
    /\ idleTime = 0
    /\ last = Idle
    /\ rot = NoRotation
    /\ mcp = NoCall
    /\ passwordsAccess = NoAccess
    /\ drawn = {}
    /\ sealed = <<>>
    /\ sealedFiles = <<>>
    /\ \E password \in Passwords : storedHash = hashMasterPassword(password)
    /\ files \in LegacyDisks
    /\ passwordFiles \in LegacyPasswordDisks

LegacyInvoke ==
    /\ last = Idle
    /\ \/ /\ \/ \E password \in Passwords : unlockVault(password)
             \/ lockVault
             \/ getNotes("")
             \/ \E id \in NoteIds : getNoteContent(id)
             \/ \E content \in Bodies : createNote(FolderDir, content)
             \/ \E id \in NoteIds, content \in Bodies : updateNote(id, content)
          /\ UNCHANGED passwordFiles
       \/ getPasswords
       \/ \E id \in PasswordIds : getPasswordContent(id)
       \/ \E secret \in Bodies : createPassword(secret)
    /\ UNCHANGED <<rot, mcp, drawn, sealed, sealedFiles>>

NextLegacy ==
    \/ LegacyInvoke
    \/ Return

SpecLegacy == InitLegacy /\ [][NextLegacy]_vars

---------------------------------------------------------------------------
(* The rotation over a tree that holds records sealed under the master     *)
(* password, legacy files and a file that is not an .md file.              *)

\* a copy of a record kept beside it under another extension
StoredAttachment(password) == StoredNote("n1", password)

RotationDisks(password) ==
    {[p \in Paths |->
        IF p = <<RootNotes, "n1">> /\ root = "legacy" THEN LegacyNote("n1", "x")
        ELSE IF p = <<RootNotes, "n1">> /\ root = "record" THEN StoredNote("n1", password)
        ELSE IF p = <<FolderNotes, "n2">> /\ sub = "legacy" THEN LegacyNote("n2", "y")
        ELSE IF p = <<FolderNotes, "n2">> /\ sub = "record" THEN StoredNote("n2", password)
        ELSE IF p = <<FolderDir, FolderMd>> /\ md THEN StoredFolder(password)
        ELSE IF p = <<FolderDir, Attachment>> /\ bak THEN StoredAttachment(password)
        ELSE NoFile] : root \in {"none", "legacy", "record"},
                       sub \in {"none", "legacy", "record"},
                       md \in BOOLEAN, bak \in BOOLEAN}

InitRotation ==
    /\ derivedKey = NoKey
    /\ idleTime = 0
    /\ last = Idle
    /\ rot = NoRotation
    /\ mcp = NoCall
    /\ passwordsAccess = NoAccess
    /\ passwordFiles = [id \in PasswordIds |-> NoFile]
    /\ drawn = {}
    /\ sealed = <<>>
    /\ sealedFiles = <<>>
    /\ \E password \in Passwords :
          /\ storedHash = hashMasterPassword(password)
          /\ files \in RotationDisks(password)

RotationInvoke ==
    /\ last = Idle
    /\ \/ \E password \in Passwords : unlockVault(password)
       \/ \E id \in NoteIds, content \in Bodies : updateNote(id, content)
       \/ \E oldPassword, newPassword \in Passwords :
             changeMasterPasswordVault(oldPassword, newPassword)
    /\ UNCHANGED <<rot, mcp, passwordFiles, drawn, sealed, sealedFiles>>

NextRotation ==
    \/ RotationInvoke
    \/ Return

SpecRotation == InitRotation /\ [][NextRotation]_vars

---------------------------------------------------------------------------
(* The notes moved between the folders and out of the trash.               *)

MoveInvoke ==
    /\ last = Idle
    /\ \/ \E password \in Passwords : setupMasterPassword(password)
       \/ \E password \in Passwords : unlockVault(password)
       \/ \E folderPath \in {"", FolderDir}, content \in Bodies :
             createNote(folderPath, content)
       \/ \E id \in NoteIds : deleteNote(id, FALSE)
       \/ \E id \in NoteIds, targetFolderPath \in {RootDir, FolderDir} :
             moveNoteToFolder(id, targetFolderPath)
    /\ UNCHANGED <<rot, mcp, passwordFiles, drawn, sealed, sealedFiles>>

NextMove ==
    \/ MoveInvoke
    \/ Return

SpecMove == Init /\ [][NextMove]_vars

---------------------------------------------------------------------------
(* The commands and the tool server side by side.  The commands of         *)
(* commands/*.rs are synchronous: they run one at a time on the main       *)
(* thread.  The tool server (lib.rs:82, mcp/tools.rs) runs on the async    *)
(* runtime and calls mcp/api.rs on the same Storage while a command runs;  *)
(* nothing in vault.rs or api.rs takes a lock for the length of a          *)
(* rotation or of a tool call.  A step is one access to the session or to  *)
(* a file.                                                                 *)

\* the directories of the walk, in an order read_dir can yield them
DirOrders ==
    LET folder == {<<FolderDir, FolderNotes>>, <<FolderNotes, FolderDir>>} IN
    {<<RootNotes>> \o f : f \in folder} \cup {f \o <<RootNotes>> : f \in folder}

\* changeMasterPasswordVault up to the write of the new hash
RotationBegin(oldPassword, newPassword) ==
    LET args == [cmd |-> "changeMasterPasswordVault",
                 oldPassword |-> oldPassword, newPassword |-> newPassword] IN
    /\ last = Idle
    /\ rot = NoRotation
    /\ IF storedHash = NoHash
       THEN /\ last' = args @@ [ret |-> Err("Vault not set up")]
            /\ UNCHANGED <<storedHash, rot>>
       ELSE IF ~verifyMasterPassword(oldPassword, storedHash)
       THEN /\ last' = args @@ [ret |-> Err("Current password is incorrect")]
            /\ UNCHANGED <<storedHash, rot>>
       ELSE \E dirs \in DirOrders :
            /\ storedHash' = hashMasterPassword(newPassword)
            /\ rot' = [pc |-> "walk", args |-> args, dirs |-> dirs, entries |-> <<>>]
            /\ UNCHANGED last
    /\ UNCHANGED <<derivedKey, idleTime, passwordsAccess, files, mcp>>

\* read_dir of the next directory of the walk
RotationOpenDir ==
    /\ rot.pc = "walk"
    /\ rot.entries = <<>>
    /\ rot.dirs # <<>>
    /\ \E entries \in Perms(Existing(files, Head(rot.dirs))) :
          rot' = [rot EXCEPT !.dirs = Tail(rot.dirs), !.entries = entries]
    /\ UNCHANGED <<storedHash, derivedKey, idleTime, passwordsAccess, files, last, mcp>>

\* the next file of the directory is read and, when it is in the encrypted
\* format, decrypted under the old password and sealed under the new one
RotationRead ==
    /\ rot.pc = "walk"
    /\ rot.entries # <<>>
    /\ LET path == Head(rot.entries)
           step == reEncryptFile(files, path, rot.args.oldPassword, rot.args.newPassword)
       IN  IF ~step.res.ok
           THEN /\ rot' = NoRotation
                /\ last' = rot.args @@ [ret |-> step.res]
           ELSE IF ~IsMd(path) \/ ~isEncryptedFormat(files[path].raw)
           THEN /\ rot' = [rot EXCEPT !.entries = Tail(rot.entries)]
                /\ UNCHANGED last
           ELSE /\ rot' = [pc |-> "write", args |-> rot.args, dirs |-> rot.dirs,
                           entries |-> rot.entries, newContent |-> step.fs[path]]
                /\ UNCHANGED last
    /\ UNCHANGED <<storedHash, derivedKey, idleTime, passwordsAccess, files, mcp>>

\* fs::write of the re-encrypted file
RotationWrite ==
    /\ rot.pc = "write"
    /\ files' = [files EXCEPT ![Head(rot.entries)] = rot.newContent]
    /\ rot' = [pc |-> "walk", args |-> rot.args, dirs |-> rot.dirs,
               entries |-> Tail(rot.entries)]
    /\ UNCHANGED <<storedHash, derivedKey, idleTime, passwordsAccess, last, mcp>>

\* the walk is over: the session takes the key of the new password
RotationEnd ==
    /\ rot.pc = "walk"
    /\ rot.entries = <<>>
    /\ rot.dirs = <<>>
    /\ setDerivedKey(deriveKeyFromPassword(rot.args.newPassword))
    /\ last' = rot.args @@ [ret |-> Ok(Unit)]
    /\ rot' = NoRotation
    /\ UNCHANGED <<storedHash, files, mcp>>

\* the tool call has its answer
Done(ret) == [pc |-> "done", ret |-> ret]

\* api::create_note and api::update_note: the unlocked check
McpGate(op, id, content) ==
    /\ mcp = NoCall
    /\ op = "create_note" => id \in FreshIds(files)
    /\ mcp' = IF ~isUnlocked THEN Done(Err(VaultLocked))
              ELSE [pc |-> "fetch", op |-> op, id |-> id, content |-> content]
    /\ UNCHANGED <<storedHash, derivedKey, idleTime, passwordsAccess, files, last, rot>>

\* the fetch of the session's password
McpFetch ==
    /\ mcp.pc = "fetch"
    /\ mcp' = IF getMasterPassword = NoPassword THEN Done(Err("No master password"))
              ELSE [pc |-> IF mcp.op = "update_note" THEN "scan" ELSE "write",
                    op |-> mcp.op, id |-> mcp.id, content |-> mcp.content,
                    masterPassword |-> getMasterPassword]
    /\ UNCHANGED <<storedHash, derivedKey, idleTime, passwordsAccess, files, last, rot>>

\* api::update_note: the scan of the folder tree for the note
McpScan ==
    /\ mcp.pc = "scan"
    /\ LET found == Matching(scanAllNotes(files, mcp.masterPassword), mcp.id) IN
       IF found = {} THEN mcp' = Done(Err("Note not found"))
       ELSE \E note \in found :
            mcp' = [pc |-> "read", op |-> mcp.op, id |-> mcp.id, content |-> mcp.content,
                    masterPassword |-> mcp.masterPassword,
                    path |-> note.path, frontmatter |-> note.frontmatter]
    /\ UNCHANGED <<storedHash, derivedKey, idleTime, passwordsAccess, files, last, rot>>

\* api::update_note: the note's file is read again for its body
McpReadBody ==
    /\ mcp.pc = "read"
    /\ LET body == readBody(files, mcp.path, mcp.masterPassword) IN
       mcp' = IF ~body.ok THEN Done(body) ELSE [mcp EXCEPT !.pc = "write"]
    /\ UNCHANGED <<storedHash, derivedKey, idleTime, passwordsAccess, files, last, rot>>

\* the record is sealed under the password fetched and written
McpWrite ==
    /\ mcp.pc = "write"
    /\ IF mcp.op = "update_note"
       THEN files' = [files EXCEPT ![mcp.path] =
                File(serializeAndEncrypt(mcp.frontmatter, Text(mcp.content),
                                         mcp.masterPassword))]
       ELSE files' = [files EXCEPT ![<<RootNotes, mcp.id>>] =
                File(serializeAndEncrypt(NoteYaml(mcp.id), Text(mcp.content),
                                         mcp.masterPassword))]
    /\ updateActivity
    /\ mcp' = Done(Ok(Unit))
    /\ UNCHANGED <<storedHash, last, rot>>

\* api::get_notes: the unlocked check; the call notes the password the
\* session hands out at that moment
McpGateList ==
    /\ mcp = NoCall
    /\ mcp' = IF ~isUnlocked THEN Done(Err(VaultLocked))
              ELSE [pc |-> "fetchList", op |-> "get_notes", held |-> getMasterPassword]
    /\ UNCHANGED <<storedHash, derivedKey, idleTime, passwordsAccess, files, last, rot>>

\* api::get_notes: the fetch of the session's password, an Option that is
\* passed on as it is
McpFetchList ==
    /\ mcp.pc = "fetchList"
    /\ mcp' = [pc |-> "list", op |-> mcp.op, held |-> mcp.held,
               masterPassword |-> getMasterPassword]
    /\ UNCHANGED <<storedHash, derivedKey, idleTime, passwordsAccess, files, last, rot>>

\* api::get_notes: the scan of the folder tree under the password fetched
McpList ==
    /\ mcp.pc = "list"
    /\ updateActivity
    /\ mcp' = Done(Ok({n.frontmatter.id : n \in scanAllNotes(files, mcp.masterPassword)}))
    /\ UNCHANGED <<storedHash, files, last, rot>>

\* the tool server sends the answer
McpReturn ==
    /\ mcp.pc = "done"
    /\ mcp' = NoCall
    /\ UNCHANGED <<storedHash, derivedKey, idleTime, passwordsAccess, files, last, rot>>

\* the session commands of the main thread, when no rotation is running
SessionCommand ==
    /\ last = Idle
    /\ rot = NoRotation
    /\ \/ \E password \in Passwords : setupMasterPassword(password)
       \/ \E password \in Passwords : unlockVault(password)
       \/ lockVault
    /\ UNCHANGED <<rot, mcp>>

Rotation ==
    \/ \E oldPassword, newPassword \in Passwords : RotationBegin(oldPassword, newPassword)
    \/ RotationOpenDir
    \/ RotationRead
    \/ RotationWrite
    \/ RotationEnd

ToolCall ==
    \/ \E op \in {"create_note", "update_note"}, id \in NoteIds, content \in Bodies :
          McpGate(op, id, content)
    \/ McpFetch
    \/ McpScan
    \/ McpReadBody
    \/ McpWrite
    \/ McpGateList
    \/ McpFetchList
    \/ McpList
    \/ McpReturn

NextRace ==
    \/ SessionCommand /\ UNCHANGED <<passwordFiles, drawn, sealed, sealedFiles>>
    \/ Rotation /\ UNCHANGED <<passwordFiles, drawn, sealed, sealedFiles>>
    \/ ToolCall /\ UNCHANGED <<passwordFiles, drawn, sealed, sealedFiles>>
    \/ Return

SpecRace == Init /\ [][NextRace]_vars

---------------------------------------------------------------------------
(* Properties of the commands run one at a time *)

\* the commands that read, write, move or delete encrypted records
RecordCommands ==
    {"getNotes", "getNoteContent", "createNote", "updateNote", "deleteNote",
     "getFolders", "createFolder", "deleteFolder",
     "listTrashNotes", "emptyTrash", "restoreAllFromTrash"}

\* the record files of the folder tree
Records(fs) == {p \in UnderFolders : fs[p].exists}

\* what a record file opens to under a password: its metadata and its
\* content, both decrypted
Opened(file, password) ==
    IF ~file.exists \/ ~isEncryptedFormat(file.raw) \/ ~parseEncryptedFile(file.raw).ok
    THEN Err("not a record")
    ELSE LET encrypted == parseEncryptedFile(file.raw).val
             metadata == decryptMetadata(encrypted.metadata, password)
             body == decryptContent(encrypted.content, password)
         IN  IF metadata.ok /\ body.ok
             THEN Ok([metadata |-> metadata.val, body |-> body.val])
             ELSE Err("sealed")

\* one section of the record file at least decrypts under the password
OpensInPart(file, password) ==
    /\ file.exists
    /\ isEncryptedFormat(file.raw)
    /\ parseEncryptedFile(file.raw).ok
    /\ LET encrypted == parseEncryptedFile(file.raw).val IN
       \/ decryptMetadata(encrypted.metadata, password).ok
       \/ decryptContent(encrypted.content, password).ok

\* the step is a changeMasterPasswordVault that returns success
RotationSucceeds ==
    /\ last = Idle
    /\ last'.cmd = "changeMasterPasswordVault"
    /\ last'.ret = Ok(Unit)

\* C1: in a state where the session is not Unlocked, every command that
\* reads, writes, moves or deletes encrypted records (deleteFolder and
\* emptyTrash among them) fails with "Vault is locked" and leaves every
\* record file as it was.
C1_LockedCommandsFail ==
    [][(last = Idle /\ ~isUnlocked /\ last'.cmd \in RecordCommands)
          => (last'.ret = Err(VaultLocked) /\ files' = files)]_vars

\* C2: after changeMasterPasswordVault(old, new), old # new, has returned
\* success on a folder tree whose records all open under old, every one of
\* those records opens under new to the metadata and content it had, no
\* section of it decrypts under old, and the stored hash verifies new and
\* not old.
C2_RotationReEncrypts ==
    [][(/\ RotationSucceeds
        /\ last'.oldPassword # last'.newPassword
        /\ \A p \in Records(files) : Opened(files[p], last'.oldPassword).ok)
          => (/\ \A p \in Records(files) :
                    /\ Opened(files'[p], last'.newPassword)
                          = Opened(files[p], last'.oldPassword)
                    /\ ~OpensInPart(files'[p], last'.oldPassword)
              /\ verifyMasterPassword(last'.newPassword, storedHash')
              /\ ~verifyMasterPassword(last'.oldPassword, storedHash'))]_vars

\* a rotation from one password to another has returned success over two
\* records or more, which open under the new password
C2_Witness ==
    /\ last.cmd = "changeMasterPasswordVault"
    /\ last.ret = Ok(Unit)
    /\ last.oldPassword # last.newPassword
    /\ Cardinality({p \in Records(files) :
                       Opened(files[p], last.newPassword).ok}) >= 2

\* C3: changeMasterPasswordVault with an old password that does not verify
\* against the stored hash fails with "Current password is incorrect" and
\* changes nothing: no file is written, the hash and the session are as
\* they were.
C3_WrongOldPasswordChangesNothing ==
    [][(/\ last = Idle
        /\ last'.cmd = "changeMasterPasswordVault"
        /\ storedHash # NoHash
        /\ ~verifyMasterPassword(last'.oldPassword, storedHash))
          => (/\ last'.ret = Err("Current password is incorrect")
              /\ UNCHANGED <<storedHash, derivedKey, idleTime, passwordsAccess, files>>)]_vars

\* a rotation has been refused for its old password while the session was
\* unlocked and the folder tree held records
C3_Witness ==
    /\ last.cmd = "changeMasterPasswordVault"
    /\ last.ret = Err("Current password is incorrect")
    /\ isUnlocked
    /\ Records(files) # {}

\* C4: a changeMasterPasswordVault that returns success has re-encrypted
\* every encrypted record file of the workspace, those moved to the trash
\* included: every file that opened under the old password opens under the
\* new one, and none still decrypts under the old one only.
C4_RotationCoversTrash ==
    [][(RotationSucceeds /\ last'.oldPassword # last'.newPassword)
          => \A p \in Paths :
                Opened(files[p], last'.oldPassword).ok
                   => /\ Opened(files'[p], last'.newPassword).ok
                      /\ ~OpensInPart(files'[p], last'.oldPassword)]_vars

\* the states of the VaultSession
Uninitialized == storedHash = NoHash

Unlocked == storedHash # NoHash /\ isUnlocked

Locked == storedHash # NoHash /\ ~isUnlocked

\* C6: unlockVault(p) from Locked with a password that does not verify
\* against the stored hash returns false (not an error), leaves the session
\* Locked with no key in memory, and leaves the stored hash as it was.
C6_WrongUnlockStaysLocked ==
    [][(/\ last = Idle
        /\ last'.cmd = "unlockVault"
        /\ Locked
        /\ ~verifyMasterPassword(last'.password, storedHash))
          => (/\ last'.ret = Ok(FALSE)
              /\ Locked'
              /\ derivedKey' = NoKey
              /\ storedHash' = storedHash)]_vars

\* an unlock has answered false and the session is Locked
C6_Witness ==
    /\ last.cmd = "unlockVault"
    /\ last.ret = Ok(FALSE)
    /\ Locked
    /\ ~verifyMasterPassword(last.password, storedHash)

\* C7: unlockVault(p) from Locked with the password that verifies against
\* the stored hash returns true, leaves the session Unlocked with the key
\* of p and no idle time elapsed (lastActivity = now), so that a
\* vault-gated command that follows at once passes the unlocked check.
C7_RightUnlockUnlocks ==
    [][(/\ last = Idle
        /\ last'.cmd = "unlockVault"
        /\ Locked
        /\ verifyMasterPassword(last'.password, storedHash))
          => (/\ last'.ret = Ok(TRUE)
              /\ Unlocked'
              /\ derivedKey' = deriveKeyFromPassword(last'.password)
              /\ idleTime' = 0
              /\ storedHash' = storedHash)]_vars

\* an unlock has answered true and the session is Unlocked
C7_Witness ==
    /\ last.cmd = "unlockVault"
    /\ last.ret = Ok(TRUE)
    /\ Unlocked
    /\ idleTime = 0

\* C8: setupMasterPassword(b) when a credential hash exists fails with
\* "Master password already set up" and changes nothing: the hash, the
\* session and the files are as they were.
C8_SecondSetupFails ==
    [][(/\ last = Idle
        /\ last'.cmd = "setupMasterPassword"
        /\ storedHash # NoHash)
          => (/\ last'.ret = Err("Master password already set up")
              /\ UNCHANGED <<storedHash, derivedKey, idleTime, passwordsAccess, files>>)]_vars

\* a setup with another password than the vault's has been refused
C8_Witness ==
    /\ last.cmd = "setupMasterPassword"
    /\ last.ret = Err("Master password already set up")
    /\ ~verifyMasterPassword(last.password, storedHash)

\* the note of the id is in the folder tree and reads back to the body
ReadsBack(fs, id, body, masterPassword) ==
    /\ findNote(fs, id, masterPassword) # {}
    /\ \A note \in findNote(fs, id, masterPassword) :
          /\ note.path \in UnderFolders
          /\ readBody(fs, note.path, masterPassword) = Ok(Text(body))

\* C9: setupMasterPassword(p) from Uninitialized persists a hash that
\* verifies p and leaves the session Unlocked holding the key of p with no
\* unlock; and in an Unlocked session a createNote succeeds and the note
\* reads back, under the session's key, to the body that was written.
C9_SetupUnlocks ==
    [][/\ (/\ last = Idle
           /\ last'.cmd = "setupMasterPassword"
           /\ Uninitialized)
             => (/\ last'.ret = Ok(Unit)
                 /\ verifyMasterPassword(last'.password, storedHash')
                 /\ Unlocked'
                 /\ derivedKey' = deriveKeyFromPassword(last'.password)
                 /\ idleTime' = 0)
       /\ (/\ last = Idle
           /\ last'.cmd = "createNote"
           /\ Unlocked)
             => (/\ last'.ret.ok
                 /\ Unlocked'
                 /\ ReadsBack(files', last'.ret.val, last'.content, getMasterPassword'))]_vars

\* a setup has succeeded on a new workspace: the hash verifies its
\* password and the session holds the key of that password
C9_Witness ==
    /\ last.cmd = "setupMasterPassword"
    /\ last.ret = Ok(Unit)
    /\ verifyMasterPassword(last.password, storedHash)
    /\ Unlocked
    /\ derivedKey = deriveKeyFromPassword(last.password)

\* the commands that decrypt or encrypt records under the session's key
CryptoCommands ==
    {"getNotes", "getNoteContent", "createNote", "updateNote", "deleteNote",
     "getFolders", "createFolder", "listTrashNotes"}

\* C10: lockVault from any state leaves the session not Unlocked with no
\* key in memory, and from then on the session stays so, and every command
\* that decrypts or encrypts records fails with "Vault is locked", until
\* an unlockVault (or, with no hash, a setupMasterPassword) succeeds.
C10_LockedUntilUnlock ==
    [][/\ (last = Idle /\ last'.cmd = "lockVault")
             => (~isUnlocked' /\ derivedKey' = NoKey)
       /\ (last = Idle /\ ~isUnlocked /\ last'.cmd \in CryptoCommands)
             => last'.ret = Err(VaultLocked)
       /\ (~isUnlocked /\ isUnlocked')
             => (/\ last'.cmd \in {"unlockVault", "setupMasterPassword"}
                 /\ last'.ret.ok)]_vars

\* the step is a tick of the clock
Ticks ==
    /\ last = Idle
    /\ last' = Idle
    /\ <<derivedKey, idleTime, passwordsAccess>>' # <<derivedKey, idleTime, passwordsAccess>>

\* C11: when the session is Unlocked and the idle timeout elapses with no
\* activity in between, the session is no longer Unlocked, and the next
\* vault-gated command, whichever it is, observes it Locked: it fails with
\* "Vault is locked" and leaves the session Locked.
C11_AutoLock ==
    [][/\ (Ticks /\ isUnlocked /\ idleTime + 1 >= IdleTimeout) => ~isUnlocked'
       /\ (last = Idle /\ Locked /\ last'.cmd \in RecordCommands)
             => (last'.ret = Err(VaultLocked) /\ Locked')]_vars

\* C12: every vault-gated command that reads or writes a record and returns
\* success in an Unlocked session has reset lastActivity before it returns:
\* no idle time has elapsed when it returns.
C12_SuccessTouchesActivity ==
    [][(last = Idle /\ isUnlocked /\ last'.cmd \in RecordCommands /\ last'.ret.ok)
          => idleTime' = 0]_vars

\* C17: when changeMasterPasswordVault(old, new) has returned success the
\* session is Unlocked and holds new: every record the rotation left
\* sealed under new opens under the password the session hands to the
\* reads and writes that follow, with no unlock in between.
C17_SessionHoldsNewPassword ==
    [][RotationSucceeds
          => /\ isUnlocked'
             /\ \A p \in Records(files') :
                   Opened(files'[p], last'.newPassword).ok
                      => Opened(files'[p], getMasterPassword').ok]_vars

ListingCommands == {"getNotes", "getFolders", "listTrashNotes"}

\* the directories the listing reads
Listed(call) ==
    IF call.cmd = "getNotes"
    THEN IF call.folderPath = FolderDir THEN {FolderNotes} ELSE {RootNotes, FolderNotes}
    ELSE IF call.cmd = "getFolders" THEN {FolderDir} ELSE {TrashNotes}

\* a stored file in the encrypted format that does not parse, or whose
\* metadata does not decrypt under the password
FailsToOpen(file, password) ==
    /\ file.exists
    /\ isEncryptedFormat(file.raw)
    /\ LET encrypted == parseEncryptedFile(file.raw) IN
       \/ ~encrypted.ok
       \/ ~decryptMetadata(encrypted.val.metadata, password).ok

\* C25: when the session is Unlocked and a stored encrypted record in the
\* directories a listing command reads fails to parse or to decrypt, the
\* listing returns a failure, not a success result without that record.
C25_ListingSurfacesErrors ==
    [][(/\ last = Idle
        /\ isUnlocked
        /\ last'.cmd \in ListingCommands
        /\ \E p \in Paths : /\ p[1] \in Listed(last')
                            /\ FailsToOpen(files[p], getMasterPassword))
          => ~last'.ret.ok]_vars

---------------------------------------------------------------------------
(* Properties of the access to the password records *)

UnlocksPasswordsAccess == last = Idle /\ last'.cmd = "unlockPasswordsAccess"

\* C13: the access to the password records becomes unlocked only by
\* unlockPasswordsAccess, called while the session is Unlocked with a
\* password that verifies against the stored hash, and the call answers
\* true.  When the session is not Unlocked the call fails with an error;
\* with a wrong password it answers false; both leave the access locked.
C13_AccessOnlyByVerifiedUnlock ==
    [][/\ (~Storage_isPasswordsAccessUnlocked /\ Storage_isPasswordsAccessUnlocked')
             => /\ UnlocksPasswordsAccess
                /\ isUnlocked
                /\ verifyMasterPassword(last'.password, storedHash)
                /\ last'.ret = Ok(TRUE)
       /\ (UnlocksPasswordsAccess /\ ~isUnlocked)
             => /\ ~last'.ret.ok
                /\ ~passwordsAccess'.granted
       /\ (UnlocksPasswordsAccess /\ isUnlocked
              /\ ~verifyMasterPassword(last'.password, storedHash)
              /\ ~Storage_isPasswordsAccessUnlocked)
             => /\ last'.ret = Ok(FALSE)
                /\ ~Storage_isPasswordsAccessUnlocked']_vars

\* unlockPasswordsAccess has answered true in an Unlocked session and the
\* access is unlocked
C13_Witness ==
    /\ last.cmd = "unlockPasswordsAccess"
    /\ last.ret = Ok(TRUE)
    /\ verifyMasterPassword(last.password, storedHash)
    /\ Storage_isPasswordsAccessUnlocked

C39_NoUnlockWithoutHash ==
    [][(/\ last = Idle
        /\ storedHash = NoHash
        /\ last'.cmd \in {"unlockVault", "unlockPasswordsAccess"})
          => /\ ~last'.ret.ok
             /\ storedHash' = NoHash
             /\ ~isUnlocked'
             /\ ~Storage_isPasswordsAccessUnlocked']_vars

\* unlockVault has been refused on a workspace with no hash
C39_Witness ==
    /\ last.cmd = "unlockVault"
    /\ last.ret = Err("Vault not set up - no master password")
    /\ storedHash = NoHash
    /\ ~isUnlocked

PasswordCommands ==
    {"getPasswords", "getPasswordContent", "createPassword", "deletePassword"}

\* C16: a password command succeeds only when the access to the password
\* records is unlocked.
C16_PasswordCommandsNeedAccess ==
    [][(last = Idle /\ last'.cmd \in PasswordCommands /\ last'.ret.ok)
          => Storage_isPasswordsAccessUnlocked]_vars

---------------------------------------------------------------------------
(* Properties of the cipher and the record codec *)

\* the salt and the nonce a blob carries
SaltOf(blob) == SubSeq(Base64_decode(blob).val, 1, SALT_SIZE)

NonceOf(blob) == SubSeq(Base64_decode(blob).val, SALT_SIZE + 1, SALT_SIZE + NONCE_SIZE)

\* C18: for every text P, the empty text included, and every password K,
\* decrypt(encrypt(P, K), K) gives P; and the file createEncryptedFile
\* makes of a metadata and a body parses into two blobs that decrypt under
\* the password to that metadata and that body.
C18_RoundTrip ==
    /\ \A i \in 1..Len(sealed) :
          crypto_decrypt(sealed[i].blob, sealed[i].masterPassword)
             = Ok(sealed[i].plaintext)
    /\ \A i \in 1..Len(sealedFiles) :
          LET f == sealedFiles[i]
              encrypted == parseEncryptedFile(f.raw)
          IN  /\ isEncryptedFormat(f.raw)
              /\ encrypted.ok
              /\ crypto_decrypt(encrypted.val.metadata, f.masterPassword)
                    = Ok(f.yamlMetadata)
              /\ crypto_decrypt(encrypted.val.content, f.masterPassword)
                    = Ok(f.bodyContent)

\* a file has been made of a metadata and the empty body, and the empty
\* text is what its content blob seals
C18_Witness ==
    \E i \in 1..Len(sealedFiles), j \in 1..Len(sealed) :
       /\ sealedFiles[i].bodyContent = <<>>
       /\ sealed[j].plaintext = <<>>
       /\ sealed[j].blob = parseEncryptedFile(sealedFiles[i].raw).val.content

\* C19: under a password other than the one a blob was sealed with,
\* decrypt fails with "Decryption failed - wrong password?": it never
\* returns a text.
C19_WrongKeyFails ==
    \A i \in 1..Len(sealed) :
       \A masterPassword \in Passwords \ {sealed[i].masterPassword} :
          crypto_decrypt(sealed[i].blob, masterPassword)
             = Err("Decryption failed - wrong password?")

\* blobs have been sealed under each of two passwords
C19_Witness ==
    \E i, j \in 1..Len(sealed) :
       /\ sealed[i].masterPassword # sealed[j].masterPassword
       /\ sealed[i].plaintext = sealed[j].plaintext

\* C20: every call of encrypt draws its own salt and nonce: no two blobs
\* are equal, even of the same text under the same password, no two blobs
\* carry the same salt and nonce, the two blobs of one record included,
\* and every blob decrypts under the password it was sealed with.
C20_FreshSaltAndNonce ==
    /\ \A i, j \in 1..Len(sealed) :
          i # j => /\ sealed[i].blob # sealed[j].blob
                   /\ <<SaltOf(sealed[i].blob), NonceOf(sealed[i].blob)>>
                         # <<SaltOf(sealed[j].blob), NonceOf(sealed[j].blob)>>
    /\ \A i \in 1..Len(sealedFiles) :
          LET encrypted == parseEncryptedFile(sealedFiles[i].raw).val IN
          /\ encrypted.metadata # encrypted.content
          /\ <<SaltOf(encrypted.metadata), NonceOf(encrypted.metadata)>>
                # <<SaltOf(encrypted.content), NonceOf(encrypted.content)>>
    /\ \A i \in 1..Len(sealed) :
          crypto_decrypt(sealed[i].blob, sealed[i].masterPassword).ok

\* the same text has been encrypted twice under the same password
C20_Witness ==
    \E i, j \in 1..Len(sealed) :
       /\ i # j
       /\ sealed[i].plaintext = sealed[j].plaintext
       /\ sealed[i].masterPassword = sealed[j].masterPassword

\* C21: decrypt reports one and the same error value for every failing
\* input: of two calls of decrypt that fail, one after the other, whatever
\* the inputs (no base64, too short, a tag that does not match, the wrong
\* password), the second returns the error the first returned.
C21_OneDecryptError ==
    [][(/\ last.cmd = "decrypt"
        /\ last'.cmd = "decrypt"
        /\ ~last.ret.ok
        /\ ~last'.ret.ok) => last'.ret = last.ret]_vars

---------------------------------------------------------------------------
(* Properties of the format functions *)

\* the first line of the text that is not blank, BlankLine when it has none
FirstLine(raw) == IF NonBlank(raw) = <<>> THEN BlankLine ELSE Head(NonBlank(raw))

\* C22: isEncryptedFormat(raw) is true if and only if the first line of
\* raw that is not blank is exactly the header: it is false for a first
\* line that begins with the header and goes on, and for frontmatter that
\* starts with ---.
C22_HeaderExactly ==
    last.cmd = "isEncryptedFormat"
       => (last.ret.val <=> FirstLine(last.raw) = FORMAT_HEADER)

Has(raw, line) == \E i \in 1..Len(raw) : raw[i] = line

\* a text parse has to refuse: the header is not its first line, a marker
\* is absent, or [CONTENT] appears before [METADATA]
Malformed(raw) ==
    \/ raw = <<>>
    \/ raw[1] # FORMAT_HEADER
    \/ ~Has(raw, METADATA_MARKER)
    \/ ~Has(raw, CONTENT_MARKER)
    \/ \E i, j \in 1..Len(raw) :
          i < j /\ raw[i] = CONTENT_MARKER /\ raw[j] = METADATA_MARKER

\* C23: parse fails, and returns no blobs, on every text in which the
\* header is not the first line, the [METADATA] marker is absent, the
\* [CONTENT] marker is absent, or [CONTENT] appears before [METADATA].
C23_MalformedRejected ==
    (last.cmd = "parseEncryptedFile" /\ Malformed(last.raw)) => ~last.ret.ok

\* a text with the header first and each marker once, [METADATA] before
\* [CONTENT], and no line that is not blank between the two markers
EmptyMetadataSection(raw) ==
    /\ raw # <<>>
    /\ raw[1] = FORMAT_HEADER
    /\ \E i, j \in 1..Len(raw) :
          /\ i < j
          /\ \A k \in 1..Len(raw) : raw[k] = METADATA_MARKER <=> k = i
          /\ \A k \in 1..Len(raw) : raw[k] = CONTENT_MARKER <=> k = j
          /\ \A k \in (i + 1)..(j - 1) : raw[k] = BlankLine

\* C38: parse rejects a text whose [METADATA] section holds no non-empty
\* line between the [METADATA] and [CONTENT] markers: it returns an error
\* and not a record with an empty metadata blob.
C38_EmptyMetadataRejected ==
    (last.cmd = "parseEncryptedFile" /\ EmptyMetadataSection(last.raw)) => ~last.ret.ok

\* C24: for all blobs m and c, serialize emits the header, [METADATA], m,
\* [CONTENT], c in that order, each on its own line, and parse of that
\* text succeeds and returns exactly m as the metadata blob and c as the
\* content blob.
C24_ParseOfSerialize ==
    last.cmd = "toEncryptedFile"
       => /\ last.ret.val = <<FORMAT_HEADER, METADATA_MARKER, last.encryptedMetadata,
                              CONTENT_MARKER, last.encryptedContent>>
          /\ parseEncryptedFile(last.ret.val)
                = Ok([metadata |-> last.encryptedMetadata,
                      content |-> last.encryptedContent])

\* serialize has been called on two different blobs
C24_Witness ==
    /\ last.cmd = "toEncryptedFile"
    /\ last.encryptedMetadata # last.encryptedContent

---------------------------------------------------------------------------
(* Properties of a workspace with legacy files *)

WriteCommands == {"createNote", "updateNote", "createPassword"}

\* the files the step has written
Written(old, new) == {p \in DOMAIN new : new[p].exists /\ new[p] # old[p]}

\* the file is in the encrypted format, with its header and two sections
IsRecordFile(file) ==
    /\ file.exists
    /\ isEncryptedFormat(file.raw)
    /\ parseEncryptedFile(file.raw).ok

\* the file is a legacy file: plain frontmatter and body
IsLegacy(file) ==
    /\ file.exists
    /\ ~isEncryptedFormat(file.raw)
    /\ parseFrontmatter(file.raw).ok

RotationFails ==
    /\ last = Idle
    /\ last'.cmd = "changeMasterPasswordVault"
    /\ ~last'.ret.ok
    /\ verifyMasterPassword(last'.oldPassword, storedHash)

\* C27: in every reachable Unlocked state the password the session was
\* given verifies against the stored hash, also after a
\* changeMasterPasswordVault that has failed part-way.
C27_SessionVerifies ==
    isUnlocked => verifyMasterPassword(derivedKey.argon2, storedHash)

\* C28: the new hash is never persisted before the walk: when
\* changeMasterPasswordVault fails before any file has been re-encrypted,
\* the stored hash still verifies the old password.
C28_HashAfterWalk ==
    [][(RotationFails /\ files' = files)
          => verifyMasterPassword(last'.oldPassword, storedHash')]_vars

\* a stored file in the encrypted format that does not parse or does not
\* decrypt under the password
Unreadable(file, password) ==
    /\ file.exists
    /\ isEncryptedFormat(file.raw)
    /\ ~Opened(file, password).ok

\* the file after the walk has passed it: a file that is not in the
\* encrypted format is left alone, a record holds the same metadata and
\* body under the new password
ReEncrypted(old, new, oldPassword, newPassword) ==
    IF ~isEncryptedFormat(old.raw) THEN new = old
    ELSE /\ Opened(old, oldPassword).ok
         /\ Opened(new, newPassword).ok
         /\ Opened(new, newPassword).val = Opened(old, oldPassword).val

\* C29: when the walk of changeMasterPasswordVault meets a file in the
\* encrypted format that does not parse or decrypt under the old password
\* it stops there with an error: the files visited before it are
\* re-encrypted under the new password, that file and the files not yet
\* visited are byte-identical, and the session in memory is not updated.
C29_StopsAtFirstFailure ==
    [][RotationFails
          => LET order == last'.order
                 oldPassword == last'.oldPassword
                 newPassword == last'.newPassword
             IN  /\ \E k \in 1..Len(order) :
                       /\ Unreadable(files[order[k]], oldPassword)
                       /\ \A i \in 1..(k - 1) :
                             ReEncrypted(files[order[i]], files'[order[i]],
                                         oldPassword, newPassword)
                       /\ \A i \in k..Len(order) : files'[order[i]] = files[order[i]]
                 /\ \A p \in Paths : (\A i \in 1..Len(order) : order[i] # p)
                                        => files'[p] = files[p]
                 /\ derivedKey' = derivedKey
                 /\ idleTime' = idleTime]_vars

C29_Witness ==
    /\ last.cmd = "changeMasterPasswordVault"
    /\ ~last.ret.ok
    /\ "order" \in DOMAIN last
    /\ last.oldPassword # last.newPassword
    /\ isUnlocked
    /\ derivedKey = deriveKeyFromPassword(last.oldPassword)
    /\ \E k \in 2..(Len(last.order) - 1) :
          /\ Unreadable(files[last.order[k]], last.oldPassword)
          /\ Opened(files[last.order[1]], last.newPassword).ok
          /\ Opened(files[last.order[Len(last.order)]], last.oldPassword).ok

\* C30: in every reachable state, also after a failed rotation, the
\* metadata and the content of each encrypted record are sealed under the
\* same password, which is the old or the new master password: no record
\* has its sections under different passwords or opens under neither.
C30_RecordsOpenUnderAMasterPassword ==
    \A p \in Records(files) :
       isEncryptedFormat(files[p].raw)
          => \E password \in Passwords : Opened(files[p], password).ok

\* a call of changeMasterPasswordVault that has walked the files
Rotates ==
    /\ last = Idle
    /\ last'.cmd = "changeMasterPasswordVault"
    /\ "order" \in DOMAIN last'

\* C31: changeMasterPasswordVault modifies only .md files in the encrypted
\* format: every legacy .md file and every file that is not an .md file
\* under the walked tree is byte-identical after the rotation, whether it
\* succeeds or fails.
C31_RotationLeavesOtherFiles ==
    [][Rotates
          => \A p \in Paths :
                (files[p].exists /\ (~IsMd(p) \/ ~isEncryptedFormat(files[p].raw)))
                   => files'[p] = files[p]]_vars

C31_Witness ==
    /\ last.cmd = "changeMasterPasswordVault"
    /\ "order" \in DOMAIN last
    /\ last.oldPassword # last.newPassword
    /\ files[<<FolderDir, Attachment>>].exists
    /\ \E p \in UnderFolders : IsLegacy(files[p])
    /\ \E i \in 1..Len(last.order) :
          /\ IsMd(last.order[i])
          /\ Opened(files[last.order[i]], last.newPassword).ok

\* C32: the session enters Unlocked only through a setupMasterPassword or
\* an unlockVault that succeeds: no other command takes the session from
\* Locked to Unlocked.
C32_UnlockedOnlyBySetupOrUnlock ==
    [][(last = Idle /\ ~isUnlocked /\ isUnlocked')
          => \/ last'.cmd = "setupMasterPassword" /\ last'.ret.ok
             \/ last'.cmd = "unlockVault" /\ last'.ret = Ok(TRUE)]_vars

\* C35: every record a write command writes in a session opened with
\* setupMasterPassword(P) or unlockVault(P) is sealed under P itself, the
\* password changeMasterPasswordVault(P, N) decrypts with, and not under
\* a value derived from P.
C35_RecordsSealedUnderThePassword ==
    [][(/\ last = Idle
        /\ isUnlocked
        /\ last'.cmd \in {"createNote", "updateNote", "createFolder"}
        /\ last'.ret.ok)
          => \A p \in Written(files, files') :
                Opened(files'[p], derivedKey.argon2).ok]_vars

\* C37: a move of a note to a folder that returns success preserves the
\* note: afterwards exactly one file of that id exists, in the notes
\* directory of the target folder, and it reads back to the body the note
\* had before, also when the note is already in the target folder.
C37_MovePreservesRecord ==
    [][(last = Idle /\ last'.cmd = "moveNoteToFolder" /\ last'.ret.ok)
          => LET id == last'.id
                 target == TargetNotesDir(last'.targetFolderPath)
             IN  /\ files'[<<target, id>>].exists
                 /\ \A d \in NoteDirs \ {target} : ~files'[<<d, id>>].exists
                 /\ \E note \in findNote(files, id, getMasterPassword) :
                       readBody(files', <<target, id>>, getMasterPassword)
                          = readBody(files, note.path, getMasterPassword)]_vars

---------------------------------------------------------------------------
(* Properties of the commands and the tool server side by side *)

\* C33: a listing whose unlocked check and password fetch interleave with
\* a lockVault does not return success with encrypted records missing:
\* when get_notes answers with success, every note that the session it
\* found Unlocked can read is in its result.
C33_ListingNeverDropsRecords ==
    [][(mcp.pc = "list" /\ mcp'.pc = "done" /\ mcp'.ret.ok)
          => \A n \in scanAllNotes(files, mcp.held) :
                n.frontmatter.id \in mcp'.ret.val]_vars

C5_SerializedAgainstRotation ==
    [][(rot.pc # "idle" /\ mcp.pc \in {"scan", "read", "write"})
          => mcp' = mcp]_vars

====
